---- MODULE Spec2Model ----
(***************************************************************************)
(* Orchestration / Policy / Execution triad of the trading bot.            *)
(*                                                                         *)
(* Amounts are integers (one unit = the smallest USDT amount used below),  *)
(* percentages are integer percents, the risk score is in thousandths, and *)
(* time is counted in units of five minutes.  The input sets are chosen so *)
(* that every division the code performs in float64 is exact here.         *)
(***************************************************************************)
EXTENDS Integers, Sequences, FiniteSets, TLC

VARIABLES
    now,            \* wall clock (time.Now()), in units of 5 minutes
    policy,         \* Engine.policy, loaded once
    metrics,        \* Engine.metrics (*RiskMetrics)
    lastValidation, \* outcome of the last direct ValidateAction call
    lastPrice,      \* the last direct PriceFailover.GetPrice call and its outcome
    lastScore,      \* the last two calculateRiskScore evaluations
    lastEvent,      \* outcome of the last direct CheckCircuitBreakers call
    rateLimiters,   \* AuthManager.rateLimiters, one RateLimiter per user
    authClock,      \* time.Now() as the AuthManager reads it, in half seconds
    authLog,        \* the CheckRateLimit calls made so far, with their outcomes
    ks,             \* KillSwitch {active, reason, activatedAt}
    cache,          \* PriceFailover.cache
    thresholdPercent, \* SlippageGuard.thresholdPercent
    ex,             \* one Executor.Execute frame per thread
    statusSeen,     \* what the last KillSwitch.GetStatus call returned
    numFallbacks,   \* len(PriceFailover.fallbackSources)
    mode,           \* Orchestrator.mode
    isRunning,      \* Orchestrator.isRunning
    stopClosed,     \* whether Orchestrator.stopChan has been closed
    tickerStopped,  \* whether Orchestrator.ticker has been stopped
    tickPending,    \* a tick is buffered in ticker.C (capacity 1)
    ctxDone,        \* the context handed to Start has been cancelled
    starting,       \* Start calls that passed the isRunning check, not yet spawned
    panicked,       \* the process panicked (close of a closed channel)
    run,            \* one record per run-loop goroutine
    cfg             \* the environment of the run: what callers and collaborators may do

vars == <<now, policy, metrics, lastValidation, ks, cache, thresholdPercent,
          ex, statusSeen, numFallbacks, mode, isRunning, stopClosed, tickerStopped, tickPending,
          ctxDone, starting, panicked, run, cfg, lastPrice, lastScore, lastEvent,
          rateLimiters, authClock, authLog>>

\* what only the direct calls of the pure components write
authVars == <<rateLimiters, authClock, authLog>>

probeVars == <<lastPrice, lastScore, lastEvent, authVars>>

----------------------------------------------------------------------------
(* Bounds of the model *)

MaxTime == 13          \* clock horizon of the orchestrator runs
ShortHorizon == 2      \* clock horizon of the executor and policy runs
MaxFallbacks == 2      \* fallback price sources that can be registered
MaxCalls == 5          \* CheckRateLimit calls in one run
AuthHorizon == 2       \* clock horizon of the rate limiter runs, in half seconds

(* Program constants, in units of five minutes *)
DrawdownPause == 12
DailyLossPause == 288
VolatilityPause == 6
CacheTTL == 1
MaxDecisionActions == 3

----------------------------------------------------------------------------
(* Data *)

Symbols == {"BTCUSDT", "ETHUSDT"}

Modes == {"shadow", "pilot", "full"}

\* policy.ActionRequest; Parameters is a map, a key is present iff it is in
\* the DOMAIN of the function.
Act(type, symbol, params) == [Type |-> type, Symbol |-> symbol, Parameters |-> params]

NoParams == [k \in {} |-> 0]

Has(params, k) == k \in DOMAIN params

\* Risk profiles (policy.Policy as loaded from YAML by loadPolicy)
Profiles ==
    { [ProfileName |-> "moderate", MaxOrderUSDT |-> 2, MaxPositionUSDT |-> 4,
       MaxTotalExposure |-> 4, MaxDailyLossUSDT |-> 1, TradesPerHour |-> 1,
       CircuitBreakers |-> << [Type |-> "drawdown", Threshold |-> 50] >>],
      [ProfileName |-> "conservative", MaxOrderUSDT |-> 1, MaxPositionUSDT |-> 2,
       MaxTotalExposure |-> 4, MaxDailyLossUSDT |-> 1, TradesPerHour |-> 1,
       CircuitBreakers |-> << [Type |-> "news_negative", Threshold |-> 0],
                              [Type |-> "daily_loss", Threshold |-> 1],
                              [Type |-> "drawdown", Threshold |-> 25] >>],
      [ProfileName |-> "aggressive", MaxOrderUSDT |-> 3, MaxPositionUSDT |-> 6,
       MaxTotalExposure |-> 6, MaxDailyLossUSDT |-> 2, TradesPerHour |-> 1,
       CircuitBreakers |-> << >>] }

\* A policy without exposure and daily-loss limits and with a volatility rule
\* ahead of a drawdown rule.
CustomProfile ==
    [ProfileName |-> "custom", MaxOrderUSDT |-> 1, MaxPositionUSDT |-> 2,
     MaxTotalExposure |-> 0, MaxDailyLossUSDT |-> 0, TradesPerHour |-> 1,
     CircuitBreakers |-> << [Type |-> "volatility", Threshold |-> 30],
                            [Type |-> "drawdown", Threshold |-> 25] >>]

\* What the storage can answer during one updateMetrics call.
Bal(invested, pnl) == [TotalInvested |-> invested, UnrealizedPnL |-> pnl]

StorageBalances ==
    { << >>, << Bal(2, 0) >>, << Bal(2, 1) >>, << Bal(4, -1) >>,
      << Bal(2, -1) >>, << Bal(2, 0), Bal(2, -1) >> }

StorageResponses ==
    [balErr : BOOLEAN, balances : StorageBalances,
     tradesErr : BOOLEAN, numTrades : {0, 24}, saveErr : BOOLEAN]

----------------------------------------------------------------------------
(* Policy engine: pure helpers *)

RECURSIVE SumInvested(_)
SumInvested(bs) ==
    IF bs = << >> THEN 0 ELSE Head(bs).TotalInvested + SumInvested(Tail(bs))

RECURSIVE SumPnL(_)
SumPnL(bs) ==
    IF bs = << >> THEN 0 ELSE Head(bs).UnrealizedPnL + SumPnL(Tail(bs))

ZeroMetrics ==
    [TotalExposureUSDT |-> 0, DailyLossUSDT |-> 0, DailyTradeCount |-> 0,
     CurrentDrawdown |-> 0, VolatilityPct |-> 0]

\* Engine.updateMetrics: returns the error flag and the metrics it leaves
\* behind (the fields written before a failing storage call stay written).
updateMetrics(m, resp) ==
    IF resp.balErr THEN [err |-> TRUE, metrics |-> m]
    ELSE
      LET totalExposure == SumInvested(resp.balances)
          totalPnL == SumPnL(resp.balances)
          raw == (0 - (totalPnL * 100)) \div totalExposure
          dd == IF totalExposure > 0
                  THEN (IF raw < 0 THEN 0 ELSE raw)
                  ELSE m.CurrentDrawdown
          m1 == [m EXCEPT !.TotalExposureUSDT = totalExposure,
                          !.CurrentDrawdown = dd]
      IN IF resp.tradesErr THEN [err |-> TRUE, metrics |-> m1]
         ELSE [err |-> FALSE,
               metrics |-> [m1 EXCEPT !.DailyTradeCount = resp.numTrades,
                                      !.DailyLossUSDT = 0]]

NoEvent == [Reason |-> "nil", PausedUntil |-> 0]

\* checkCircuitBreakers with a drawdown rule that trips only above its
\* threshold.
RECURSIVE checkCircuitBreakersExclusive(_, _, _)
checkCircuitBreakersExclusive(cbs, m, t) ==
    IF cbs = << >> THEN NoEvent
    ELSE LET cb == Head(cbs) IN
      IF cb.Type = "drawdown" /\ m.CurrentDrawdown > cb.Threshold
        THEN [Reason |-> "drawdown", PausedUntil |-> t + DrawdownPause]
      ELSE IF cb.Type = "daily_loss" /\ m.DailyLossUSDT >= cb.Threshold
        THEN [Reason |-> "daily_loss", PausedUntil |-> t + DailyLossPause]
      ELSE IF cb.Type = "volatility" /\ m.VolatilityPct >= cb.Threshold
        THEN [Reason |-> "volatility", PausedUntil |-> t + VolatilityPause]
      ELSE checkCircuitBreakersExclusive(Tail(cbs), m, t)

\* Engine.checkCircuitBreakers: first rule of the list whose metric reaches
\* its threshold.
RECURSIVE checkCircuitBreakers(_, _, _)
checkCircuitBreakers(cbs, m, t) ==
    IF cbs = << >> THEN NoEvent
    ELSE LET cb == Head(cbs) IN
      IF cb.Type = "drawdown" /\ m.CurrentDrawdown >= cb.Threshold
        THEN [Reason |-> "drawdown", PausedUntil |-> t + DrawdownPause]
      ELSE IF cb.Type = "daily_loss" /\ m.DailyLossUSDT >= cb.Threshold
        THEN [Reason |-> "daily_loss", PausedUntil |-> t + DailyLossPause]
      ELSE IF cb.Type = "volatility" /\ m.VolatilityPct >= cb.Threshold
        THEN [Reason |-> "volatility", PausedUntil |-> t + VolatilityPause]
      ELSE checkCircuitBreakers(Tail(cbs), m, t)

Violation(type, limitName, limitValue, attempted, severity) ==
    [Type |-> type, LimitName |-> limitName, LimitValue |-> limitValue,
     AttemptedValue |-> attempted, Severity |-> severity]

\* The amount validateBuyAction and executeBuy read from the parameters.
BuyAmount(params) ==
    IF Has(params, "quote_usdt") THEN params["quote_usdt"]
    ELSE IF Has(params, "quoteAmount") THEN params["quoteAmount"]
    ELSE 0

\* validateBuyAction with the order-size test made inclusive.
validateBuyActionInclusive(pol, m, action) ==
    LET amount == BuyAmount(action.Parameters)
        newExposure == m.TotalExposureUSDT + amount
        v1 == IF amount >= pol.MaxOrderUSDT
                THEN << Violation("order_size", "max_order_usdt",
                                  pol.MaxOrderUSDT, amount, "critical") >>
                ELSE << >>
        v2 == IF newExposure > pol.MaxTotalExposure
                THEN << Violation("total_exposure", "max_total_exposure",
                                  pol.MaxTotalExposure, newExposure, "critical") >>
                ELSE << >>
    IN v1 \o v2

validateBuyAction(pol, m, action) ==
    LET amount == BuyAmount(action.Parameters)
        newExposure == m.TotalExposureUSDT + amount
        v1 == IF amount > pol.MaxOrderUSDT
                THEN << Violation("order_size", "max_order_usdt",
                                  pol.MaxOrderUSDT, amount, "critical") >>
                ELSE << >>
        v2 == IF newExposure > pol.MaxTotalExposure
                THEN << Violation("total_exposure", "max_total_exposure",
                                  pol.MaxTotalExposure, newExposure, "critical") >>
                ELSE << >>
    IN v1 \o v2

validateSellAction(pol, m, action) == << >>

validateGridAction(pol, m, action) ==
    LET levels == IF Has(action.Parameters, "levels")
                    THEN action.Parameters["levels"] ELSE 0
        orderSize == IF Has(action.Parameters, "order_size_quote")
                       THEN action.Parameters["order_size_quote"] ELSE 0
        totalGridCapital == levels * orderSize
    IN IF totalGridCapital > pol.MaxPositionUSDT
         THEN << Violation("position_size", "max_position_size_usd",
                           pol.MaxPositionUSDT, totalGridCapital, "warning") >>
         ELSE << >>

\* calculateRiskScore without the final cap at 1.0.
calculateRiskScoreNoClamp(pol, m) ==
    LET s1 == IF pol.MaxTotalExposure > 0
                THEN (m.TotalExposureUSDT * 400) \div pol.MaxTotalExposure ELSE 0
        s2 == m.CurrentDrawdown * 3
        s3 == IF pol.MaxDailyLossUSDT > 0
                THEN (m.DailyLossUSDT * 300) \div pol.MaxDailyLossUSDT ELSE 0
    IN s1 + s2 + s3

\* Engine.calculateRiskScore, in thousandths.
calculateRiskScore(pol, m) ==
    LET s1 == IF pol.MaxTotalExposure > 0
                THEN (m.TotalExposureUSDT * 400) \div pol.MaxTotalExposure ELSE 0
        s2 == m.CurrentDrawdown * 3
        s3 == IF pol.MaxDailyLossUSDT > 0
                THEN (m.DailyLossUSDT * 300) \div pol.MaxDailyLossUSDT ELSE 0
        score == s1 + s2 + s3
    IN IF score > 1000 THEN 1000 ELSE score

\* HasCritical comparing the severity with a spelling no violation carries.
HasCriticalWrongCase(vs) == \E i \in 1..Len(vs) : vs[i].Severity = "Critical"

HasCritical(vs) == \E i \in 1..Len(vs) : vs[i].Severity = "critical"

CriticalOnly(vs) == SelectSeq(vs, LAMBDA v : v.Severity = "critical")

NoResult == [Approved |-> FALSE, RiskScore |-> 0, Violations |-> << >>]

\* ValidateAction running the remaining checks after a breaker has tripped.
ValidateActionBreakerAmongOthers(pol, m, action, resp, t) ==
    LET um == updateMetrics(m, resp)
        m1 == um.metrics
        triggered == checkCircuitBreakers(pol.CircuitBreakers, m1, t)
        kind == IF action.Type \in {"set_dca", "buy"}
                  THEN validateBuyAction(pol, m1, action)
                ELSE IF action.Type = "sell"
                  THEN validateSellAction(pol, m1, action)
                ELSE IF action.Type = "set_grid"
                  THEN validateGridAction(pol, m1, action)
                ELSE << >>
        freq == IF m1.DailyTradeCount >= pol.TradesPerHour * 24
                  THEN << Violation("trade_frequency", "trades_per_day",
                                    pol.TradesPerHour * 24,
                                    m1.DailyTradeCount + 1, "warning") >>
                  ELSE << >>
        loss == IF m1.DailyLossUSDT >= pol.MaxDailyLossUSDT
                  THEN << Violation("daily_loss", "max_daily_loss_usdt",
                                    pol.MaxDailyLossUSDT, m1.DailyLossUSDT,
                                    "critical") >>
                  ELSE << >>
        violations == kind \o freq \o loss
        \* Approved starts true, the daily-loss check clears it, and so does
        \* the final loop over the violations when it meets a critical one
        afterLoss == (loss = << >>)
        approved == IF HasCritical(violations) THEN FALSE ELSE afterLoss
    IN IF um.err
         THEN [err |-> TRUE, metrics |-> m1, result |-> NoResult, saved |-> << >>,
               saveFailed |-> FALSE]
       ELSE IF triggered # NoEvent
         THEN [err |-> FALSE, metrics |-> m1,
               result |-> [Approved |-> FALSE, RiskScore |-> 0,
                           Violations |-> << Violation("circuit_breaker", "", 0, 0,
                                                       "critical") >>
                                         \o violations],
               saved |-> << >>, saveFailed |-> FALSE]
       ELSE [err |-> FALSE, metrics |-> m1,
             result |-> [Approved |-> approved,
                         RiskScore |-> calculateRiskScore(pol, m1),
                         Violations |-> violations],
             saved |-> CriticalOnly(violations),
             saveFailed |-> resp.saveErr /\ CriticalOnly(violations) # << >>]

\* Engine.ValidateAction at time t with the storage answering resp.
\* err: the call returned an error (and no result); metrics: Engine.metrics
\* after the call; saved: the violations handed to SavePolicyViolation;
\* saveFailed: a SavePolicyViolation call of this pass returned an error.
ValidateAction(pol, m, action, resp, t) ==
    LET um == updateMetrics(m, resp)
        m1 == um.metrics
        triggered == checkCircuitBreakers(pol.CircuitBreakers, m1, t)
        kind == IF action.Type \in {"set_dca", "buy"}
                  THEN validateBuyAction(pol, m1, action)
                ELSE IF action.Type = "sell"
                  THEN validateSellAction(pol, m1, action)
                ELSE IF action.Type = "set_grid"
                  THEN validateGridAction(pol, m1, action)
                ELSE << >>
        freq == IF m1.DailyTradeCount >= pol.TradesPerHour * 24
                  THEN << Violation("trade_frequency", "trades_per_day",
                                    pol.TradesPerHour * 24,
                                    m1.DailyTradeCount + 1, "warning") >>
                  ELSE << >>
        loss == IF m1.DailyLossUSDT >= pol.MaxDailyLossUSDT
                  THEN << Violation("daily_loss", "max_daily_loss_usdt",
                                    pol.MaxDailyLossUSDT, m1.DailyLossUSDT,
                                    "critical") >>
                  ELSE << >>
        violations == kind \o freq \o loss
        \* Approved starts true, the daily-loss check clears it, and so does
        \* the final loop over the violations when it meets a critical one
        afterLoss == (loss = << >>)
        approved == IF HasCritical(violations) THEN FALSE ELSE afterLoss
    IN IF um.err
         THEN [err |-> TRUE, metrics |-> m1, result |-> NoResult, saved |-> << >>,
               saveFailed |-> FALSE]
       ELSE IF triggered # NoEvent
         THEN [err |-> FALSE, metrics |-> m1,
               result |-> [Approved |-> FALSE, RiskScore |-> 0,
                           Violations |-> << Violation("circuit_breaker", "", 0, 0,
                                                       "critical") >>],
               saved |-> << >>, saveFailed |-> FALSE]
       ELSE [err |-> FALSE, metrics |-> m1,
             result |-> [Approved |-> approved,
                         RiskScore |-> calculateRiskScore(pol, m1),
                         Violations |-> violations],
             saved |-> CriticalOnly(violations),
             saveFailed |-> resp.saveErr /\ CriticalOnly(violations) # << >>]

----------------------------------------------------------------------------
(* Threads *)

Runs == {"g1", "g2"}          \* run-loop goroutines spawned by Start

Callers == {"c1", "c2"}       \* direct callers of Executor.Execute

Threads == Runs \cup Callers

----------------------------------------------------------------------------
(* Kill switch *)

\* KillSwitch.IsActive
IsActive == ks.active

\* Activate that flips the flag instead of setting it.
ActivateToggle(reason) ==
    /\ ks' = [active |-> ~ks.active, reason |-> reason, activatedAt |-> now]
    /\ UNCHANGED <<now, policy, metrics, lastValidation, probeVars, cache, thresholdPercent,
                   ex, statusSeen, numFallbacks, mode, isRunning, stopClosed,
                   tickerStopped, tickPending, ctxDone, starting, panicked, run, cfg>>

\* KillSwitch.Activate
Activate(reason) ==
    /\ ks' = [active |-> TRUE, reason |-> reason, activatedAt |-> now]
    /\ UNCHANGED <<now, policy, metrics, lastValidation, probeVars, cache, thresholdPercent,
                   ex, statusSeen, numFallbacks, mode, isRunning, stopClosed,
                   tickerStopped, tickPending, ctxDone, starting, panicked, run, cfg>>

\* KillSwitch.Deactivate
Deactivate ==
    /\ ks' = [ks EXCEPT !.active = FALSE, !.reason = ""]
    /\ UNCHANGED <<now, policy, metrics, lastValidation, probeVars, cache, thresholdPercent,
                   ex, statusSeen, numFallbacks, mode, isRunning, stopClosed,
                   tickerStopped, tickPending, ctxDone, starting, panicked, run, cfg>>

\* KillSwitch.GetStatus
GetStatus ==
    /\ statusSeen' = [active |-> ks.active, reason |-> ks.reason,
                      activatedAt |-> ks.activatedAt]
    /\ UNCHANGED <<now, policy, metrics, lastValidation, probeVars, ks, cache,
                   thresholdPercent, ex, numFallbacks, mode, isRunning,
                   stopClosed, tickerStopped, tickPending, ctxDone, starting,
                   panicked, run, cfg>>

----------------------------------------------------------------------------
(* Slippage guard and price failover *)

Abs(x) == IF x < 0 THEN 0 - x ELSE x

\* CheckSlippage that also refuses a deviation equal to the threshold.
CheckSlippageInclusive(threshold, actualPrice, expectedPrice) ==
    IF expectedPrice <= 0 THEN "invalid expected price"
    ELSE IF Abs(actualPrice - expectedPrice) * 100 >= threshold * expectedPrice
      THEN "ErrSlippageTooHigh"
    ELSE "none"

\* SlippageGuard.CheckSlippage: "none", or the error it returns.
\* |actual-expected|/expected*100 > threshold, cross-multiplied by expected > 0.
CheckSlippage(threshold, actualPrice, expectedPrice) ==
    IF expectedPrice <= 0 THEN "invalid expected price"
    ELSE IF Abs(actualPrice - expectedPrice) * 100 > threshold * expectedPrice
      THEN "ErrSlippageTooHigh"
    ELSE "none"

\* SlippageGuard.SetThreshold
SetThreshold(th) ==
    /\ th \in cfg.thresholds
    /\ thresholdPercent' = th
    /\ UNCHANGED <<now, policy, metrics, lastValidation, probeVars, ks, cache, ex,
                   statusSeen, numFallbacks, mode, isRunning, stopClosed,
                   tickerStopped, tickPending, ctxDone, starting, panicked, run, cfg>>

\* PriceFailover.AddFallbackSource
AddFallbackSource ==
    /\ numFallbacks < MaxFallbacks
    /\ numFallbacks' = numFallbacks + 1
    /\ UNCHANGED <<now, policy, metrics, lastValidation, probeVars, ks, cache,
                   thresholdPercent, ex, statusSeen, mode, isRunning, stopClosed,
                   tickerStopped, tickPending, ctxDone, starting, panicked, run, cfg>>

SourceDown == 0               \* a price source answering with an error

Prices == {100, 101, 102}

NoEntry == [present |-> FALSE, price |-> 0, timestamp |-> 0]

Entry(price, t) == [present |-> TRUE, price |-> price, timestamp |-> t]

\* Index of the first source (0 = primary, k = k-th fallback) that answers,
\* or -1 when every source fails.
RECURSIVE FirstUp(_, _, _)
FirstUp(resps, k, n) ==
    IF k > n THEN -1
    ELSE IF resps[k] # SourceDown THEN k
    ELSE FirstUp(resps, k + 1, n)

\* GetPrice with a loop that does not return at the first success: every
\* source is asked and the last one that answers wins.
GetPriceNoStop(c, nfb, symbol, resps, t) ==
    LET ups == {k \in 0..nfb : resps[k] # SourceDown} IN
      IF ups # {}
        THEN LET up == CHOOSE k \in ups : \A j \in ups : j <= k IN
               [err |-> "none", price |-> resps[up], queried |-> nfb + 1,
                cache |-> [c EXCEPT ![symbol] = Entry(resps[up], t)]]
      ELSE IF c[symbol].present /\ t - c[symbol].timestamp < CacheTTL
        THEN [err |-> "none", price |-> c[symbol].price, queried |-> nfb + 1,
              cache |-> c]
      ELSE [err |-> "ErrPriceUnavailable", price |-> 0, queried |-> nfb + 1,
            cache |-> c]

\* GetPrice that writes the cache only when the primary source answers.
GetPriceFallbackUncached(c, nfb, symbol, resps, t) ==
    LET up == FirstUp(resps, 0, nfb) IN
      IF up >= 0
        THEN [err |-> "none", price |-> resps[up], queried |-> up + 1,
              cache |-> IF up = 0 THEN [c EXCEPT ![symbol] = Entry(resps[up], t)]
                        ELSE c]
      ELSE IF c[symbol].present /\ t - c[symbol].timestamp < CacheTTL
        THEN [err |-> "none", price |-> c[symbol].price, queried |-> nfb + 1,
              cache |-> c]
      ELSE [err |-> "ErrPriceUnavailable", price |-> 0, queried |-> nfb + 1,
            cache |-> c]

\* GetPrice that still serves a cache entry aged exactly the cache lifetime.
GetPriceStaleInclusive(c, nfb, symbol, resps, t) ==
    LET up == FirstUp(resps, 0, nfb) IN
      IF up >= 0
        THEN [err |-> "none", price |-> resps[up], queried |-> up + 1,
              cache |-> [c EXCEPT ![symbol] = Entry(resps[up], t)]]
      ELSE IF c[symbol].present /\ t - c[symbol].timestamp <= CacheTTL
        THEN [err |-> "none", price |-> c[symbol].price, queried |-> nfb + 1,
              cache |-> c]
      ELSE [err |-> "ErrPriceUnavailable", price |-> 0, queried |-> nfb + 1,
            cache |-> c]

\* PriceFailover.GetPrice(symbol) at time t, the sources answering resps
\* (resps[0] the primary, resps[k] the k-th fallback).
\* queried: how many sources were asked.
GetPrice(c, nfb, symbol, resps, t) ==
    LET up == FirstUp(resps, 0, nfb) IN
      IF up >= 0
        THEN [err |-> "none", price |-> resps[up], queried |-> up + 1,
              cache |-> [c EXCEPT ![symbol] = Entry(resps[up], t)]]
      ELSE IF c[symbol].present /\ t - c[symbol].timestamp < CacheTTL
        THEN [err |-> "none", price |-> c[symbol].price, queried |-> nfb + 1,
              cache |-> c]
      ELSE [err |-> "ErrPriceUnavailable", price |-> 0, queried |-> nfb + 1,
            cache |-> c]

----------------------------------------------------------------------------
(* Executor.Execute, one step per external call *)

\* Frame of one Execute call.  called: the collaborators the call has used
\* so far.  nilResult: the call returned a nil *ExecutionResult.
IdleFrame ==
    [pc |-> "idle", action |-> Act("none", "BTCUSDT", NoParams), price |-> 0,
     queried |-> 0, called |-> {}, Success |-> FALSE, Error |-> "none",
     nilResult |-> FALSE, side |-> "none", amount |-> 0]

Return(f, success, error, nil) ==
    [f EXCEPT !.pc = "returned", !.Success = success, !.Error = error,
              !.nilResult = nil]

\* Execute without its first gate.
ExecuteEnterNoKillSwitch(action) ==
    [IdleFrame EXCEPT !.action = action, !.pc = "validate"]

\* Execute, gate 1: the kill switch.
ExecuteEnter(action) ==
    LET f == [IdleFrame EXCEPT !.action = action] IN
      IF IsActive THEN Return(f, FALSE, "ErrKillSwitchActive", FALSE)
      ELSE [f EXCEPT !.pc = "validate"]

exUnchangedOrch == <<mode, isRunning, stopClosed, tickerStopped, tickPending,
                     ctxDone, starting, panicked, run, cfg>>

\* A direct call of Executor.Execute by caller t.
Execute(t, action) ==
    /\ ~panicked
    /\ t \in cfg.callers
    /\ ex[t].pc \in {"idle", "returned"}
    /\ ex' = [ex EXCEPT ![t] = ExecuteEnter(action)]
    /\ UNCHANGED <<now, policy, metrics, lastValidation, probeVars, ks, cache,
                   thresholdPercent, statusSeen, numFallbacks>>
    /\ UNCHANGED exUnchangedOrch

\* Gate 2 that records the verdict but lets a rejected action go on to the
\* price resolution.
ExecuteValidateNoGate(t) ==
    /\ ~panicked
    /\ ex[t].pc = "validate"
    /\ \E resp \in cfg.storage :
         LET v == ValidateAction(policy, metrics, ex[t].action, resp, now)
             f == [ex[t] EXCEPT !.called = @ \cup {"ValidateAction"}]
         IN /\ metrics' = v.metrics
            /\ ex' = [ex EXCEPT ![t] =
                 IF v.err THEN Return(f, FALSE, "policy validation error", TRUE)
                 ELSE [f EXCEPT !.pc = "price"]]
    /\ UNCHANGED <<now, policy, lastValidation, probeVars, ks, cache, thresholdPercent,
                   statusSeen, numFallbacks>>
    /\ UNCHANGED exUnchangedOrch

\* Execute, gate 2: policy validation, by a caller standing at position at.
ExecuteValidateAt(t, at) ==
    /\ ~panicked
    /\ ex[t].pc = at
    /\ \E resp \in cfg.storage :
         LET v == ValidateAction(policy, metrics, ex[t].action, resp, now)
             f == [ex[t] EXCEPT !.called = @ \cup {"ValidateAction"}]
         IN /\ metrics' = v.metrics
            /\ ex' = [ex EXCEPT ![t] =
                 IF v.err THEN Return(f, FALSE, "policy validation error", TRUE)
                 ELSE IF ~v.result.Approved
                   THEN Return(f, FALSE, "ErrPolicyViolation", FALSE)
                 ELSE [f EXCEPT !.pc = "price"]]
    /\ UNCHANGED <<now, policy, lastValidation, probeVars, ks, cache, thresholdPercent,
                   statusSeen, numFallbacks>>
    /\ UNCHANGED exUnchangedOrch

\* Execute, gate 2, the call and its body in one step.
ExecuteValidate(t) == ExecuteValidateAt(t, "validate")

\* Execute, gate 3: price resolution, by a caller standing at position at.
ExecutePriceAt(t, at) ==
    /\ ~panicked
    /\ ex[t].pc = at
    /\ \E resps \in [0..numFallbacks -> cfg.prices] :
         LET g == GetPrice(cache, numFallbacks, ex[t].action.Symbol, resps, now)
             f == [ex[t] EXCEPT !.called = @ \cup {"GetPrice"},
                                !.queried = g.queried]
         IN /\ cache' = g.cache
            /\ ex' = [ex EXCEPT ![t] =
                 IF g.err # "none" THEN Return(f, FALSE, g.err, FALSE)
                 ELSE [f EXCEPT !.pc = "slippage", !.price = g.price]]
    /\ UNCHANGED <<now, policy, metrics, lastValidation, probeVars, ks, thresholdPercent,
                   statusSeen, numFallbacks>>
    /\ UNCHANGED exUnchangedOrch

\* Execute, gate 3, the call and its body in one step.
ExecutePrice(t) == ExecutePriceAt(t, "price")

\* The caller enters Engine.ValidateAction.  The engine takes no lock, so
\* nothing keeps a second caller out while the first is inside.
ExecuteValidateEnter(t) ==
    /\ ~panicked
    /\ ex[t].pc = "validate"
    /\ ex' = [ex EXCEPT ![t].pc = "inValidateAction"]
    /\ UNCHANGED <<now, policy, metrics, lastValidation, probeVars, ks, cache,
                   thresholdPercent, statusSeen, numFallbacks>>
    /\ UNCHANGED exUnchangedOrch

\* The body of ValidateAction: updateMetrics writes e.metrics, the checks
\* read it.
ExecuteValidateBody(t) == ExecuteValidateAt(t, "inValidateAction")

\* The caller enters PriceFailover.GetPrice, which takes no lock either.
ExecutePriceEnter(t) ==
    /\ ~panicked
    /\ ex[t].pc = "price"
    /\ ex' = [ex EXCEPT ![t].pc = "inGetPrice"]
    /\ UNCHANGED <<now, policy, metrics, lastValidation, probeVars, ks, cache,
                   thresholdPercent, statusSeen, numFallbacks>>
    /\ UNCHANGED exUnchangedOrch

\* The body of GetPrice: the sources are asked, the cache is written or read.
ExecutePriceBody(t) == ExecutePriceAt(t, "inGetPrice")

\* Execute, gate 4: the slippage guard, then executeOrder up to the balance
\* check of executeBuy / executeSell.
ExecuteDispatch(t) ==
    /\ ~panicked
    /\ ex[t].pc = "slippage"
    /\ LET a == ex[t].action
           p == a.Parameters
           slip == IF a.Type \in {"buy", "set_dca"} /\ Has(p, "expected_price")
                     THEN CheckSlippage(thresholdPercent, ex[t].price,
                                        p["expected_price"])
                     ELSE "none"
           f == ex[t]
           fb == [f EXCEPT !.called = @ \cup {"GetBalance"}]
       IN \E balErr \in BOOLEAN, balance \in {0, 1, 3} :
            ex' = [ex EXCEPT ![t] =
              IF slip # "none" THEN Return(f, FALSE, slip, FALSE)
              ELSE IF a.Type \in {"buy", "set_dca"} THEN
                (IF ~(Has(p, "quote_usdt") \/ Has(p, "quoteAmount"))
                   THEN Return(f, FALSE, "missing quote_usdt parameter", TRUE)
                 ELSE IF balErr
                   THEN Return(fb, FALSE, "failed to get USDT balance", TRUE)
                 ELSE IF balance < BuyAmount(p)
                   THEN Return(fb, FALSE, "ErrInsufficientFunds", FALSE)
                 ELSE [fb EXCEPT !.pc = "order", !.side = "BUY",
                                 !.amount = BuyAmount(p)])
              ELSE IF a.Type = "sell" THEN
                (IF balErr THEN Return(fb, FALSE, "failed to get balance", TRUE)
                 ELSE IF balance <= 0
                   THEN Return(fb, FALSE, "ErrInsufficientFunds", FALSE)
                 ELSE [fb EXCEPT !.pc = "order", !.side = "SELL",
                                 !.amount = balance])
              ELSE IF a.Type = "set_grid"
                THEN Return(f, FALSE, "grid execution requires GridStrategy", FALSE)
              ELSE Return(f, FALSE, "unknown action type", FALSE)]
    /\ UNCHANGED <<now, policy, metrics, lastValidation, probeVars, ks, cache,
                   thresholdPercent, statusSeen, numFallbacks>>
    /\ UNCHANGED exUnchangedOrch

\* Execute, gate 5: Exchange.PlaceMarketOrder.
ExecuteOrder(t) ==
    /\ ~panicked
    /\ ex[t].pc = "order"
    /\ \E ok \in BOOLEAN :
         LET f == [ex[t] EXCEPT !.called = @ \cup {"PlaceMarketOrder"}] IN
           ex' = [ex EXCEPT ![t] =
             IF ok THEN Return(f, TRUE, "none", FALSE)
             ELSE Return(f, FALSE, "order rejected by exchange", FALSE)]
    /\ UNCHANGED <<now, policy, metrics, lastValidation, probeVars, ks, cache,
                   thresholdPercent, statusSeen, numFallbacks>>
    /\ UNCHANGED exUnchangedOrch

----------------------------------------------------------------------------
(* Environment *)

\* Time passes.
AdvanceTime(d) ==
    /\ d \in cfg.timeSteps
    /\ now + d <= cfg.horizon
    /\ now' = now + d
    /\ UNCHANGED <<policy, metrics, lastValidation, probeVars, ks, cache, thresholdPercent,
                   ex, statusSeen, numFallbacks, mode, isRunning, stopClosed,
                   tickerStopped, tickPending, ctxDone, starting, panicked, run, cfg>>

----------------------------------------------------------------------------
(* Direct use of the policy engine *)

NoValidation ==
    [action |-> Act("none", "BTCUSDT", NoParams), at |-> 0, err |-> FALSE,
     result |-> NoResult, saved |-> << >>, called |-> FALSE]

\* Engine.ValidateAction called by a client of the engine.
ValidateDirect(action) ==
    /\ \E resp \in cfg.storage :
         LET v == ValidateAction(policy, metrics, action, resp, now) IN
           /\ metrics' = v.metrics
           /\ lastValidation' = [action |-> action, at |-> now, err |-> v.err,
                                 result |-> v.result, saved |-> v.saved,
                                 called |-> TRUE]
    /\ UNCHANGED <<now, policy, ks, cache, thresholdPercent, ex, statusSeen,
                   numFallbacks, probeVars>>
    /\ UNCHANGED exUnchangedOrch

\* Engine.CheckCircuitBreakers, the exported form the orchestrator calls: the
\* breaker rules against the engine's current metrics, nothing mutated.
CheckCircuitBreakers(pol, m, t) == checkCircuitBreakers(pol.CircuitBreakers, m, t)

----------------------------------------------------------------------------
(* Direct use of the price failover *)

NoPrice ==
    [called |-> FALSE, symbol |-> "BTCUSDT", resps |-> [k \in 0..0 |-> SourceDown],
     err |-> "none", price |-> 0, queried |-> 0]

\* PriceFailover.GetPrice called by a client: resps[0] is what the primary
\* source answers for the symbol, resps[k] what fallback k answers.
GetPriceDirect(symbol) ==
    /\ symbol \in cfg.symbols
    /\ \E resps \in [0..numFallbacks -> cfg.prices] :
         LET r == GetPrice(cache, numFallbacks, symbol, resps, now) IN
           /\ cache' = r.cache
           /\ lastPrice' = [called |-> TRUE, symbol |-> symbol, resps |-> resps,
                            err |-> r.err, price |-> r.price,
                            queried |-> r.queried]
    /\ UNCHANGED authVars
    /\ UNCHANGED <<now, policy, metrics, lastValidation, lastScore, lastEvent, ks,
                   thresholdPercent, ex, statusSeen, numFallbacks>>
    /\ UNCHANGED exUnchangedOrch

----------------------------------------------------------------------------
(* Direct use of the risk score and of the circuit breakers *)

NoScore ==
    [called |-> FALSE, m |-> ZeroMetrics, score |-> 0,
     prevCalled |-> FALSE, prevM |-> ZeroMetrics, prevScore |-> 0]

\* calculateRiskScore evaluated on metrics m under the loaded policy; the
\* previous evaluation is kept beside the new one.
RiskScoreOf(m) ==
    /\ m \in cfg.metricInputs
    /\ lastScore' = [called |-> TRUE, m |-> m,
                     score |-> calculateRiskScore(policy, m),
                     prevCalled |-> lastScore.called, prevM |-> lastScore.m,
                     prevScore |-> lastScore.score]
    /\ UNCHANGED authVars
    /\ UNCHANGED <<now, policy, metrics, lastValidation, lastPrice, lastEvent, ks,
                   cache, thresholdPercent, ex, statusSeen, numFallbacks>>
    /\ UNCHANGED exUnchangedOrch

NoEventSeen == [called |-> FALSE, at |-> 0, event |-> NoEvent]

\* Engine.checkCircuitBreakers run on the engine's policy and metrics.
CheckBreakersDirect ==
    /\ lastEvent' = [called |-> TRUE, at |-> now,
                     event |-> checkCircuitBreakers(policy.CircuitBreakers,
                                                    metrics, now)]
    /\ UNCHANGED authVars
    /\ UNCHANGED <<now, policy, metrics, lastValidation, lastPrice, lastScore, ks,
                   cache, thresholdPercent, ex, statusSeen, numFallbacks>>
    /\ UNCHANGED exUnchangedOrch

----------------------------------------------------------------------------
(* Telegram AuthManager: rate limiting *)

\* time.Second, in half seconds
Second == 2

\* Telegram user ids
Users == {123, 456}

\* time.Time{}: more than a second before any reading of the clock
ZeroTime == 0 - Second

\* A user without an entry in rateLimiters; the entry is created on first use.
NoLimiter == [exists |-> FALSE, lastRequest |-> ZeroTime, requestCount |-> 0]

CheckRateLimitInclusive(limiters, userID, maxRequestsPerSecond, t) ==
    LET l0 == [limiters[userID] EXCEPT !.exists = TRUE]
        l1 == IF t - l0.lastRequest >= Second
                THEN [l0 EXCEPT !.requestCount = 0, !.lastRequest = t]
                ELSE l0
        l2 == [l1 EXCEPT !.requestCount = @ + 1]
    IN [err |-> l2.requestCount >= maxRequestsPerSecond,
        limiters |-> [limiters EXCEPT ![userID] = l2]]

\* AuthManager.CheckRateLimit at clock reading t: the outcome and the map after.
CheckRateLimit(limiters, userID, maxRequestsPerSecond, t) ==
    LET l0 == [limiters[userID] EXCEPT !.exists = TRUE]
        l1 == IF t - l0.lastRequest >= Second
                THEN [l0 EXCEPT !.requestCount = 0, !.lastRequest = t]
                ELSE l0
        l2 == [l1 EXCEPT !.requestCount = @ + 1]
    IN [err |-> l2.requestCount > maxRequestsPerSecond,
        limiters |-> [limiters EXCEPT ![userID] = l2]]

\* A handler calls CheckRateLimit; the whole call runs under am.mu.
CheckRateLimitCall(userID, maxRequestsPerSecond) ==
    /\ userID \in cfg.users
    /\ maxRequestsPerSecond \in cfg.maxRequests
    /\ Len(authLog) < MaxCalls
    /\ LET r == CheckRateLimit(rateLimiters, userID, maxRequestsPerSecond, authClock) IN
         /\ rateLimiters' = r.limiters
         /\ authLog' = Append(authLog, [user |-> userID, max |-> maxRequestsPerSecond,
                                        at |-> authClock, err |-> r.err])
    /\ UNCHANGED <<now, policy, metrics, lastValidation, lastPrice, lastScore, lastEvent,
                   authClock, ks, cache, thresholdPercent, ex, statusSeen, numFallbacks>>
    /\ UNCHANGED exUnchangedOrch

\* Half a second passes.
AuthTick ==
    /\ cfg.users # {}
    /\ authClock < AuthHorizon
    /\ authClock' = authClock + 1
    /\ UNCHANGED <<now, policy, metrics, lastValidation, lastPrice, lastScore, lastEvent,
                   rateLimiters, authLog, ks, cache, thresholdPercent, ex, statusSeen,
                   numFallbacks>>
    /\ UNCHANGED exUnchangedOrch

----------------------------------------------------------------------------
(* Orchestrator *)

\* No decision request built yet.  The limits are kept doubled, so that half
\* a limit is an integer.
NoContext ==
    [RiskLimitsX2 |-> [MaxOrderUSDT |-> 0, MaxPositionUSDT |-> 0,
                       MaxTotalExposure |-> 0, MaxDailyLoss |-> 0]]

\* Frame of a run-loop goroutine.  pc is its position in run /
\* runDecisionCycle; n, idx, action, approvedActions are the locals of the
\* cycle; the remaining fields record what the current cycle has done.
\* pausedUntil: PausedUntil of the breaker event that began the current
\* series of skipped cycles; skippedAt: when the last skipped cycle started.
NoRun ==
    [pc |-> "none", n |-> 0, idx |-> 0, action |-> Act("none", "BTCUSDT", NoParams),
     approvedActions |-> 0, verdict |-> "none",
     startMode |-> "none", allShadow |-> FALSE, execCount |-> 0,
     oracleCalls |-> 0, gathered |-> FALSE, validations |-> 0,
     violationsSaved |-> 0, decisionSaved |-> FALSE, context |-> NoContext,
     saveFailed |-> FALSE,
     outcome |-> "none", skippedAt |-> -1, pausedUntil |-> -1]

InCycle(g) == run[g].pc \in {"gather", "request", "loop", "checkMode", "executing"}

FreeRuns == {g \in cfg.runs : run[g].pc = "none"}

orchUnchangedExec == <<now, policy, metrics, lastValidation, probeVars, ks, cache,
                       thresholdPercent, ex, statusSeen, numFallbacks, cfg>>

\* Orchestrator.Start, the isRunning check.
StartCheck ==
    /\ ~panicked
    /\ ~isRunning
    /\ starting < Cardinality(FreeRuns)
    /\ starting' = starting + 1
    /\ UNCHANGED <<mode, isRunning, stopClosed, tickerStopped, tickPending,
                   ctxDone, panicked, run>>
    /\ UNCHANGED orchUnchangedExec

\* Orchestrator.Start after the check: isRunning = true; go o.run(ctx).
StartSpawn ==
    /\ ~panicked
    /\ starting > 0
    /\ \E g \in FreeRuns :
         /\ g = CHOOSE h \in FreeRuns : TRUE
         /\ run' = [run EXCEPT ![g] = [NoRun EXCEPT !.pc = "cycle"]]
    /\ isRunning' = TRUE
    /\ starting' = starting - 1
    /\ UNCHANGED <<mode, stopClosed, tickerStopped, tickPending, ctxDone, panicked>>
    /\ UNCHANGED orchUnchangedExec

\* Orchestrator.Stop
Stop ==
    /\ ~panicked
    /\ isRunning
    /\ IF stopClosed
         THEN /\ panicked' = TRUE
              /\ UNCHANGED <<stopClosed, tickerStopped, isRunning>>
         ELSE /\ stopClosed' = TRUE
              /\ tickerStopped' = TRUE
              /\ isRunning' = FALSE
              /\ UNCHANGED panicked
    /\ UNCHANGED <<mode, tickPending, ctxDone, starting, run>>
    /\ UNCHANGED orchUnchangedExec

\* The ticker delivers a tick into ticker.C (dropped when one is buffered).
TickerFire ==
    /\ ~panicked
    /\ ~tickerStopped
    /\ ~tickPending
    /\ tickPending' = TRUE
    /\ UNCHANGED <<mode, isRunning, stopClosed, tickerStopped, ctxDone, starting,
                   panicked, run>>
    /\ UNCHANGED orchUnchangedExec

\* The context handed to Start is cancelled.
CtxCancel ==
    /\ ~panicked
    /\ ~ctxDone
    /\ ctxDone' = TRUE
    /\ UNCHANGED <<mode, isRunning, stopClosed, tickerStopped, tickPending,
                   starting, panicked, run>>
    /\ UNCHANGED orchUnchangedExec

\* Orchestrator.SetMode
SetMode(m) ==
    /\ ~panicked
    /\ mode' = m
    /\ run' = [g \in DOMAIN run |->
                 [run[g] EXCEPT !.allShadow = @ /\ m = "shadow"]]
    /\ UNCHANGED <<isRunning, stopClosed, tickerStopped, tickPending, ctxDone,
                   starting, panicked>>
    /\ UNCHANGED orchUnchangedExec

\* Orchestrator.GetMode
GetMode == mode

\* Orchestrator.getMaxOrderLimit, doubled (pilot hands out half the limit)
getMaxOrderLimitX2(pol, md) ==
    IF md = "pilot" THEN pol.MaxOrderUSDT ELSE 2 * pol.MaxOrderUSDT

\* Orchestrator.buildMinimalContext: the risk limits of the fallback request
buildMinimalContext(pol, md) ==
    [RiskLimitsX2 |-> [MaxOrderUSDT |-> getMaxOrderLimitX2(pol, md),
                       MaxPositionUSDT |-> 2 * pol.MaxPositionUSDT,
                       MaxTotalExposure |-> 2 * pol.MaxTotalExposure,
                       MaxDailyLoss |-> 2 * pol.MaxDailyLossUSDT]]

\* Orchestrator.gatherContext: the risk limits of the decision request;
\* providerOk is false when there is no data provider or GetAllBalances fails.
gatherContext(pol, md, providerOk) ==
    IF ~providerOk THEN buildMinimalContext(pol, md)
    ELSE [RiskLimitsX2 |-> [MaxOrderUSDT |-> getMaxOrderLimitX2(pol, md),
                            MaxPositionUSDT |-> 2 * pol.MaxPositionUSDT,
                            MaxTotalExposure |-> 2 * pol.MaxTotalExposure,
                            MaxDailyLoss |-> 2 * pol.MaxDailyLossUSDT]]

runUnchanged == <<mode, isRunning, stopClosed, tickerStopped, tickPending,
                  ctxDone, starting, panicked>>

\* run, select: a tick is taken from ticker.C and a cycle starts.
RunTick(g) ==
    /\ ~panicked
    /\ run[g].pc = "select"
    /\ tickPending
    /\ tickPending' = FALSE
    /\ run' = [run EXCEPT ![g].pc = "cycle"]
    /\ UNCHANGED <<mode, isRunning, stopClosed, tickerStopped, ctxDone, starting,
                   panicked>>
    /\ UNCHANGED orchUnchangedExec

\* run, select: stopChan is closed.
RunStopped(g) ==
    /\ ~panicked
    /\ run[g].pc = "select"
    /\ stopClosed
    /\ run' = [run EXCEPT ![g].pc = "exited"]
    /\ UNCHANGED runUnchanged
    /\ UNCHANGED orchUnchangedExec

\* run, select: ctx.Done().
RunCtxDone(g) ==
    /\ ~panicked
    /\ run[g].pc = "select"
    /\ ctxDone
    /\ run' = [run EXCEPT ![g].pc = "exited"]
    /\ UNCHANGED runUnchanged
    /\ UNCHANGED orchUnchangedExec

\* runDecisionCycle that logs the breaker and carries on.
CycleBeginNoSkip(g) ==
    /\ ~panicked
    /\ run[g].pc = "cycle"
    /\ run' = [run EXCEPT ![g] =
         [NoRun EXCEPT !.startMode = mode, !.allShadow = (mode = "shadow"),
                       !.pc = "gather"]]
    /\ UNCHANGED <<mode, isRunning, stopClosed, tickerStopped, tickPending,
                   ctxDone, starting, panicked>>
    /\ UNCHANGED <<now, policy, metrics, lastValidation, probeVars, ks, cache,
                   thresholdPercent, ex, statusSeen, numFallbacks, cfg>>

\* runDecisionCycle, step 1: the circuit-breaker check.
CycleBegin(g) ==
    /\ ~panicked
    /\ run[g].pc = "cycle"
    /\ LET triggered == CheckCircuitBreakers(policy, metrics, now)
           fresh == [NoRun EXCEPT !.startMode = mode,
                                  !.allShadow = (mode = "shadow")]
       IN run' = [run EXCEPT ![g] =
            IF triggered # NoEvent /\ now < triggered.PausedUntil
              THEN [fresh EXCEPT !.pc = "select", !.outcome = "skipped",
                                 !.skippedAt = now,
                                 !.pausedUntil = IF run[g].pausedUntil >= 0
                                                   THEN run[g].pausedUntil
                                                   ELSE triggered.PausedUntil]
              ELSE [fresh EXCEPT !.pc = "gather"]]
    /\ UNCHANGED runUnchanged
    /\ UNCHANGED orchUnchangedExec

\* runDecisionCycle, step 2: gatherContext (full or minimal context).
CycleGather(g) ==
    /\ ~panicked
    /\ run[g].pc = "gather"
    /\ \E providerOk \in cfg.providerOk :
         run' = [run EXCEPT ![g].pc = "request", ![g].gathered = TRUE,
                            ![g].context = gatherContext(policy, mode, providerOk)]
    /\ UNCHANGED runUnchanged
    /\ UNCHANGED orchUnchangedExec

\* CycleRequest in which a failed decision request ends the run loop.
CycleRequestFatal(g) ==
    /\ ~panicked
    /\ run[g].pc = "request"
    /\ \E n \in cfg.oracleLens :
         run' = [run EXCEPT ![g] =
           IF n < 0 \/ n > MaxDecisionActions
             THEN [@ EXCEPT !.pc = "exited", !.outcome = "error",
                            !.oracleCalls = @ + 1]
             ELSE [@ EXCEPT !.pc = "loop", !.n = n, !.idx = 0,
                            !.oracleCalls = @ + 1, !.decisionSaved = TRUE]]
    /\ UNCHANGED runUnchanged
    /\ UNCHANGED orchUnchangedExec

\* runDecisionCycle, steps 3 and 4: RequestDecision, then SaveAIDecision,
\* whose failure is logged (saveFailed) and nothing more.
\* n = -1: the request failed; n > MaxDecisionActions: validateDecision
\* rejects the answer.
CycleRequest(g) ==
    /\ ~panicked
    /\ run[g].pc = "request"
    /\ \E n \in cfg.oracleLens, resp \in cfg.storage :
         run' = [run EXCEPT ![g] =
           IF n < 0 \/ n > MaxDecisionActions
             THEN [@ EXCEPT !.pc = "select", !.outcome = "error",
                            !.oracleCalls = @ + 1]
             ELSE [@ EXCEPT !.pc = "loop", !.n = n, !.idx = 0,
                            !.oracleCalls = @ + 1, !.decisionSaved = TRUE,
                            !.saveFailed = resp.saveErr]]
    /\ UNCHANGED runUnchanged
    /\ UNCHANGED orchUnchangedExec

\* A storage write failed during the validation of one action: inside
\* ValidateAction, or when the orchestrator saves the violations of a
\* rejected action itself.
SaveFailedInPass(v, resp) ==
    \/ v.saveFailed
    \/ resp.saveErr /\ ~v.err /\ ~v.result.Approved /\ v.result.Violations # << >>

\* The action loop in which a failed SavePolicyViolation ends the cycle.
CycleValidateSaveFatal(g) ==
    /\ ~panicked
    /\ run[g].pc = "loop"
    /\ run[g].idx < run[g].n
    /\ \E a \in cfg.oracleActions, resp \in cfg.storage :
         LET v == ValidateAction(policy, metrics, a, resp, now)
             r == [run[g] EXCEPT !.action = a, !.validations = @ + 1,
                                 !.saveFailed = SaveFailedInPass(v, resp)]
         IN /\ metrics' = v.metrics
            /\ run' = [run EXCEPT ![g] =
                 IF v.err
                   THEN [r EXCEPT !.idx = @ + 1, !.verdict = "error"]
                 ELSE IF SaveFailedInPass(v, resp)
                   THEN [r EXCEPT !.pc = "select", !.outcome = "error",
                                  !.verdict = "rejected"]
                 ELSE IF ~v.result.Approved
                   THEN [r EXCEPT !.idx = @ + 1, !.verdict = "rejected",
                                  !.violationsSaved = @ + Len(v.result.Violations)]
                 ELSE [r EXCEPT !.pc = "checkMode", !.verdict = "approved",
                                !.approvedActions = @ + 1]]
    /\ UNCHANGED runUnchanged
    /\ UNCHANGED <<now, policy, lastValidation, probeVars, ks, cache, thresholdPercent, ex,
                   statusSeen, numFallbacks, cfg>>

\* The action loop taking a validation that returned an error for an approval.
CycleValidateErrorApproved(g) ==
    /\ ~panicked
    /\ run[g].pc = "loop"
    /\ run[g].idx < run[g].n
    /\ \E a \in cfg.oracleActions, resp \in cfg.storage :
         LET v == ValidateAction(policy, metrics, a, resp, now)
             r == [run[g] EXCEPT !.action = a, !.validations = @ + 1,
                                 !.saveFailed = SaveFailedInPass(v, resp)]
         IN /\ metrics' = v.metrics
            /\ run' = [run EXCEPT ![g] =
                 IF v.err
                   THEN [r EXCEPT !.pc = "checkMode", !.verdict = "error",
                                  !.approvedActions = @ + 1]
                 ELSE IF ~v.result.Approved
                   THEN [r EXCEPT !.idx = @ + 1, !.verdict = "rejected",
                                  !.violationsSaved = @ + Len(v.result.Violations)]
                 ELSE [r EXCEPT !.pc = "checkMode", !.verdict = "approved",
                                !.approvedActions = @ + 1]]
    /\ UNCHANGED runUnchanged
    /\ UNCHANGED <<now, policy, lastValidation, probeVars, ks, cache, thresholdPercent, ex,
                   statusSeen, numFallbacks, cfg>>

\* The action loop without the `continue` after a rejection.
CycleValidateNoContinue(g) ==
    /\ ~panicked
    /\ run[g].pc = "loop"
    /\ run[g].idx < run[g].n
    /\ \E a \in cfg.oracleActions, resp \in cfg.storage :
         LET v == ValidateAction(policy, metrics, a, resp, now)
             r == [run[g] EXCEPT !.action = a, !.validations = @ + 1,
                                 !.saveFailed = SaveFailedInPass(v, resp)]
         IN /\ metrics' = v.metrics
            /\ run' = [run EXCEPT ![g] =
                 IF v.err
                   THEN [r EXCEPT !.idx = @ + 1, !.verdict = "error"]
                 ELSE IF ~v.result.Approved
                   THEN [r EXCEPT !.pc = "checkMode", !.verdict = "rejected",
                                  !.violationsSaved = @ + Len(v.result.Violations)]
                 ELSE [r EXCEPT !.pc = "checkMode", !.verdict = "approved",
                                !.approvedActions = @ + 1]]
    /\ UNCHANGED <<mode, isRunning, stopClosed, tickerStopped, tickPending,
                   ctxDone, starting, panicked>>
    /\ UNCHANGED <<now, policy, lastValidation, probeVars, ks, cache, thresholdPercent, ex,
                   statusSeen, numFallbacks, cfg>>

\* The action loop returning from the cycle at the first rejected action.
CycleValidateAbortOnReject(g) ==
    /\ ~panicked
    /\ run[g].pc = "loop"
    /\ run[g].idx < run[g].n
    /\ \E a \in cfg.oracleActions, resp \in cfg.storage :
         LET v == ValidateAction(policy, metrics, a, resp, now)
             r == [run[g] EXCEPT !.action = a, !.validations = @ + 1,
                                 !.saveFailed = SaveFailedInPass(v, resp)]
         IN /\ metrics' = v.metrics
            /\ run' = [run EXCEPT ![g] =
                 IF v.err
                   THEN [r EXCEPT !.idx = @ + 1, !.verdict = "error"]
                 ELSE IF ~v.result.Approved
                   THEN [r EXCEPT !.pc = "select", !.outcome = "completed",
                                  !.verdict = "rejected",
                                  !.violationsSaved = @ + Len(v.result.Violations)]
                 ELSE [r EXCEPT !.pc = "checkMode", !.verdict = "approved",
                                !.approvedActions = @ + 1]]
    /\ UNCHANGED runUnchanged
    /\ UNCHANGED <<now, policy, lastValidation, probeVars, ks, cache, thresholdPercent, ex,
                   statusSeen, numFallbacks, cfg>>

\* runDecisionCycle, step 5: ValidateAction for the next action of the decision.
CycleValidate(g) ==
    /\ ~panicked
    /\ run[g].pc = "loop"
    /\ run[g].idx < run[g].n
    /\ \E a \in cfg.oracleActions, resp \in cfg.storage :
         LET v == ValidateAction(policy, metrics, a, resp, now)
             r == [run[g] EXCEPT !.action = a, !.validations = @ + 1,
                                 !.saveFailed = SaveFailedInPass(v, resp)]
         IN /\ metrics' = v.metrics
            /\ run' = [run EXCEPT ![g] =
                 IF v.err
                   THEN [r EXCEPT !.idx = @ + 1, !.verdict = "error"]
                 ELSE IF ~v.result.Approved
                   THEN [r EXCEPT !.idx = @ + 1, !.verdict = "rejected",
                                  !.violationsSaved = @ + Len(v.result.Violations)]
                 ELSE [r EXCEPT !.pc = "checkMode", !.verdict = "approved",
                                !.approvedActions = @ + 1]]
    /\ UNCHANGED runUnchanged
    /\ UNCHANGED <<now, policy, lastValidation, probeVars, ks, cache, thresholdPercent, ex,
                   statusSeen, numFallbacks, cfg>>

\* The action loop executing whatever the mode is.
CycleExecuteAnyMode(g) ==
    /\ ~panicked
    /\ run[g].pc = "checkMode"
    /\ run' = [run EXCEPT ![g].pc = "executing", ![g].execCount = @ + 1]
    /\ ex' = [ex EXCEPT ![g] = ExecuteEnter(run[g].action)]
    /\ UNCHANGED <<mode, isRunning, stopClosed, tickerStopped, tickPending,
                   ctxDone, starting, panicked>>
    /\ UNCHANGED <<now, policy, metrics, lastValidation, probeVars, ks, cache,
                   thresholdPercent, statusSeen, numFallbacks, cfg>>

\* runDecisionCycle, step 5: the mode test and executeAction.
CycleExecute(g) ==
    /\ ~panicked
    /\ run[g].pc = "checkMode"
    /\ IF mode # "shadow"
         THEN /\ run' = [run EXCEPT ![g].pc = "executing",
                                    ![g].execCount = @ + 1]
              /\ ex' = [ex EXCEPT ![g] = ExecuteEnter(run[g].action)]
         ELSE /\ run' = [run EXCEPT ![g].pc = "loop", ![g].idx = @ + 1]
              /\ UNCHANGED ex
    /\ UNCHANGED runUnchanged
    /\ UNCHANGED <<now, policy, metrics, lastValidation, probeVars, ks, cache,
                   thresholdPercent, statusSeen, numFallbacks, cfg>>

\* executeAction returns: the loop goes on with the next action.
CycleExecuted(g) ==
    /\ ~panicked
    /\ run[g].pc = "executing"
    /\ ex[g].pc = "returned"
    /\ run' = [run EXCEPT ![g].pc = "loop", ![g].idx = @ + 1]
    /\ ex' = [ex EXCEPT ![g] = IdleFrame]
    /\ UNCHANGED runUnchanged
    /\ UNCHANGED <<now, policy, metrics, lastValidation, probeVars, ks, cache,
                   thresholdPercent, statusSeen, numFallbacks, cfg>>

\* runDecisionCycle, step 6: the summary; the cycle returns nil.
CycleEnd(g) ==
    /\ ~panicked
    /\ run[g].pc = "loop"
    /\ run[g].idx = run[g].n
    /\ run' = [run EXCEPT ![g].pc = "select", ![g].outcome = "completed"]
    /\ UNCHANGED runUnchanged
    /\ UNCHANGED orchUnchangedExec

----------------------------------------------------------------------------
(* Environments and specifications *)

Dca(symbol, quote) ==
    Act("set_dca", symbol, [k \in {"quote_usdt"} |-> quote])

\* a sell that carries an expected_price the guard must not look at
SellAt(symbol, expected) ==
    Act("sell", symbol, [k \in {"expected_price"} |-> expected])

DcaAt(symbol, quote, expected) ==
    Act("set_dca", symbol,
        [k \in {"quote_usdt", "expected_price"} |->
           IF k = "quote_usdt" THEN quote ELSE expected])

BuyAlt(symbol, quote) ==
    Act("buy", symbol, [k \in {"quoteAmount"} |-> quote])

Sell(symbol) == Act("sell", symbol, NoParams)

Grid(symbol, levels, size) ==
    Act("set_grid", symbol,
        [k \in {"levels", "order_size_quote"} |->
           IF k = "levels" THEN levels ELSE size])

Resp(balErr, balances, tradesErr, numTrades) ==
    [balErr |-> balErr, balances |-> balances, tradesErr |-> tradesErr,
     numTrades |-> numTrades, saveErr |-> FALSE]

\* the same answers from a storage whose writes fail
SaveFailing(r) == [r EXCEPT !.saveErr = TRUE]

ZeroStatus == [active |-> FALSE, reason |-> "", activatedAt |-> -1]

InitFrom(c, pols, modes, ms) ==
    /\ now = 0
    /\ policy \in pols
    /\ metrics \in ms
    /\ lastValidation = NoValidation
    /\ lastPrice = NoPrice
    /\ lastScore = NoScore
    /\ lastEvent = NoEventSeen
    /\ rateLimiters = [u \in Users |-> NoLimiter]
    /\ authClock = 0
    /\ authLog = << >>
    /\ ks = ZeroStatus
    /\ cache = [s \in Symbols |-> NoEntry]
    /\ thresholdPercent = 1
    /\ ex = [t \in Threads |-> IdleFrame]
    /\ statusSeen = ZeroStatus
    /\ numFallbacks = 0
    /\ mode \in modes
    /\ isRunning = FALSE
    /\ stopClosed = FALSE
    /\ tickerStopped = FALSE
    /\ tickPending = FALSE
    /\ ctxDone = FALSE
    /\ starting = 0
    /\ panicked = FALSE
    /\ run = [g \in Runs |-> NoRun]
    /\ cfg = c

\* NewEngine starts from zero metrics.
InitWith(c, pols, modes) == InitFrom(c, pols, modes, {ZeroMetrics})

NoCfg ==
    [callers |-> {}, runs |-> {}, actions |-> {}, oracleActions |-> {},
     oracleLens |-> {}, storage |-> {}, prices |-> {}, timeSteps |-> {},
     horizon |-> 0, modes |-> {}, reasons |-> {}, symbols |-> {},
     thresholds |-> {}, metricInputs |-> {}, users |-> {}, maxRequests |-> {},
     providerOk |-> {}]

\* The policy engine alone: every action kind against every storage answer.
PolicyCfg ==
    [NoCfg EXCEPT
       !.actions = {Dca("BTCUSDT", q) : q \in 1..4}
                   \cup {BuyAlt("BTCUSDT", q) : q \in {2, 3}}
                   \cup {Sell("BTCUSDT"), Grid("BTCUSDT", 2, 1), Grid("BTCUSDT", 2, 4),
                         Act("set_dca", "BTCUSDT", NoParams)},
       !.storage = {r \in StorageResponses :
                      /\ ~r.saveErr
                      /\ (r.balErr \/ r.tradesErr) =>
                         (r.balances = << Bal(2, -1) >> /\ r.numTrades = 0
                          /\ ~(r.balErr /\ r.tradesErr))},
       !.timeSteps = {1},
       !.horizon = ShortHorizon]

InitPolicy == InitWith(PolicyCfg, Profiles \cup {CustomProfile}, {"full"})

NextPolicy ==
    \/ \E a \in cfg.actions : ValidateDirect(a)
    \/ \E d \in cfg.timeSteps : AdvanceTime(d)

SpecPolicy == InitPolicy /\ [][NextPolicy]_vars

\* The executor and the kill switch, called directly.
ExecCfg ==
    [NoCfg EXCEPT
       !.callers = {"c1"},
       !.actions = {DcaAt("BTCUSDT", 1, 100), DcaAt("BTCUSDT", 1, 0),
                    DcaAt("BTCUSDT", 1, -100), Dca("BTCUSDT", 3), BuyAlt("BTCUSDT", 2),
                    Sell("BTCUSDT"), SellAt("BTCUSDT", 50), Grid("BTCUSDT", 2, 1),
                    Act("set_dca", "BTCUSDT", NoParams),
                    Act("rebalance", "BTCUSDT", NoParams)},
       !.storage = {Resp(FALSE, << >>, FALSE, 0),
                    Resp(FALSE, << Bal(2, -1) >>, FALSE, 0),
                    Resp(TRUE, << >>, FALSE, 0)},
       !.prices = {SourceDown, 100, 102},
       !.timeSteps = {1},
       !.horizon = ShortHorizon,
       !.reasons = {"manual"},
       !.thresholds = {1, 2}]

InitExec == InitWith(ExecCfg, {p \in Profiles : p.ProfileName = "moderate"}, {"full"})

NextExec ==
    \/ \E t \in cfg.callers, a \in cfg.actions : Execute(t, a)
    \/ \E t \in cfg.callers : ExecuteValidate(t)
    \/ \E t \in cfg.callers : ExecutePrice(t)
    \/ \E t \in cfg.callers : ExecuteDispatch(t)
    \/ \E t \in cfg.callers : ExecuteOrder(t)
    \/ \E r \in cfg.reasons : Activate(r)
    \/ Deactivate
    \/ GetStatus
    \/ \E th \in cfg.thresholds : SetThreshold(th)
    \/ \E d \in cfg.timeSteps : AdvanceTime(d)

SpecExec == InitExec /\ [][NextExec]_vars

\* One run loop, its decision cycles in full, with mode changes and time.
OrchCfg ==
    [NoCfg EXCEPT
       !.runs = {"g1"},
       !.oracleActions = {DcaAt("BTCUSDT", 1, 100), Dca("BTCUSDT", 3),
                          Grid("BTCUSDT", 2, 4)},
       !.oracleLens = {-1, 0, 2, 4},
       !.storage = {Resp(FALSE, << >>, FALSE, 0),
                    Resp(FALSE, << Bal(2, -1) >>, FALSE, 0),
                    Resp(TRUE, << >>, FALSE, 0),
                    SaveFailing(Resp(FALSE, << >>, FALSE, 0)),
                    SaveFailing(Resp(FALSE, << Bal(2, -1) >>, FALSE, 0))},
       !.prices = {SourceDown, 100},
       !.timeSteps = {DrawdownPause},
       !.horizon = MaxTime,
       !.modes = Modes \cup {"turbo"},
       !.providerOk = BOOLEAN]

InitOrch == InitWith(OrchCfg, {p \in Profiles : p.ProfileName = "moderate"}, Modes)

NextOrch ==
    \/ StartCheck
    \/ StartSpawn
    \/ TickerFire
    \/ \E m \in cfg.modes : SetMode(m)
    \/ \E g \in cfg.runs : RunTick(g)
    \/ \E g \in cfg.runs : CycleBegin(g)
    \/ \E g \in cfg.runs : CycleGather(g)
    \/ \E g \in cfg.runs : CycleRequest(g)
    \/ \E g \in cfg.runs : CycleValidate(g)
    \/ \E g \in cfg.runs : CycleExecute(g)
    \/ \E g \in cfg.runs : CycleExecuted(g)
    \/ \E g \in cfg.runs : CycleEnd(g)
    \/ \E g \in cfg.runs : ExecuteValidate(g)
    \/ \E g \in cfg.runs : ExecutePrice(g)
    \/ \E g \in cfg.runs : ExecuteDispatch(g)
    \/ \E g \in cfg.runs : ExecuteOrder(g)
    \/ \E d \in cfg.timeSteps : AdvanceTime(d)

SpecOrch == InitOrch /\ [][NextOrch]_vars

\* The run loop under Start, Stop, ticks and cancellation, with as many
\* goroutines as Start can spawn.
RunCfg ==
    [NoCfg EXCEPT
       !.runs = Runs,
       !.oracleActions = {Dca("BTCUSDT", 1), Dca("BTCUSDT", 3)},
       !.oracleLens = {-1, 1, 4},
       !.storage = {Resp(FALSE, << >>, FALSE, 0)},
       !.prices = {100},
       !.providerOk = {TRUE}]

InitRun == InitWith(RunCfg, {p \in Profiles : p.ProfileName = "moderate"}, {"full"})

NextRun ==
    \/ StartCheck
    \/ StartSpawn
    \/ Stop
    \/ TickerFire
    \/ CtxCancel
    \/ \E g \in cfg.runs : RunTick(g)
    \/ \E g \in cfg.runs : RunStopped(g)
    \/ \E g \in cfg.runs : RunCtxDone(g)
    \/ \E g \in cfg.runs : CycleBegin(g)
    \/ \E g \in cfg.runs : CycleGather(g)
    \/ \E g \in cfg.runs : CycleRequest(g)
    \/ \E g \in cfg.runs : CycleValidate(g)
    \/ \E g \in cfg.runs : CycleExecute(g)
    \/ \E g \in cfg.runs : CycleExecuted(g)
    \/ \E g \in cfg.runs : CycleEnd(g)
    \/ \E g \in cfg.runs : ExecuteValidate(g)
    \/ \E g \in cfg.runs : ExecutePrice(g)
    \/ \E g \in cfg.runs : ExecuteDispatch(g)
    \/ \E g \in cfg.runs : ExecuteOrder(g)

SpecRun == InitRun /\ [][NextRun]_vars

----------------------------------------------------------------------------
(* Properties *)

\* Thread t enters Executor.Execute in this step.
ExecuteEntered(t) ==
    /\ ex[t].pc \in {"idle", "returned"}
    /\ ex'[t] # ex[t]
    /\ ex'[t].pc # "idle"

\* C1: an Execute call made while the kill switch is active returns at once
\* with Success=false and ErrKillSwitchActive, having called neither the
\* policy engine, nor a price source, nor GetBalance, nor PlaceMarketOrder;
\* and a frame that ended with the kill-switch error never called any of them.
C1_KillSwitchGate ==
    /\ [][\A t \in Threads :
            (ExecuteEntered(t) /\ IsActive) =>
               /\ ex'[t].pc = "returned"
               /\ ~ex'[t].Success
               /\ ~ex'[t].nilResult
               /\ ex'[t].Error = "ErrKillSwitchActive"
               /\ ex'[t].called = {}]_vars
    /\ [](\A t \in Threads :
            ex[t].Error = "ErrKillSwitchActive" =>
               ex[t].pc = "returned" /\ ~ex[t].Success /\ ex[t].called = {})

C1_Witness ==
    \E t \in Threads :
       /\ IsActive
       /\ ex[t].pc = "returned"
       /\ ex[t].Error = "ErrKillSwitchActive"
       /\ ex[t].action.Type = "sell"

\* C3: for a buy / set_dca action validated without error and without a
\* circuit breaker tripping, an amount above MaxOrderUSDT gives Approved=false
\* and a critical order_size violation carrying the limit and the amount; an
\* amount up to the limit gives no order_size violation.
C3_OrderSizeLimit ==
    LET v == lastValidation
        amount == BuyAmount(v.action.Parameters)
        vs == v.result.Violations
    IN (/\ v.called
        /\ ~v.err
        /\ v.action.Type \in {"buy", "set_dca"}
        /\ checkCircuitBreakers(policy.CircuitBreakers, metrics, v.at) = NoEvent)
       => /\ amount > policy.MaxOrderUSDT =>
               /\ ~v.result.Approved
               /\ \E i \in 1..Len(vs) :
                    /\ vs[i].Type = "order_size"
                    /\ vs[i].Severity = "critical"
                    /\ vs[i].LimitValue = policy.MaxOrderUSDT
                    /\ vs[i].AttemptedValue = amount
          /\ amount <= policy.MaxOrderUSDT =>
               \A i \in 1..Len(vs) : vs[i].Type # "order_size"

C3_Witness ==
    /\ lastValidation.called
    /\ ~lastValidation.err
    /\ lastValidation.action.Type = "set_dca"
    /\ policy.MaxOrderUSDT = 2
    /\ BuyAmount(lastValidation.action.Parameters) = 3
    /\ metrics.TotalExposureUSDT = 0
    /\ Len(lastValidation.result.Violations) = 1
    /\ ~lastValidation.result.Approved

\* C2: a decision cycle during which the mode was shadow from its start on
\* never enters Executor.Execute.
C2_ShadowNeverExecutes ==
    \A g \in Runs :
       (run[g].pc # "none" /\ run[g].allShadow) =>
          run[g].execCount = 0 /\ ex[g].pc = "idle"

C2_Witness ==
    \E g \in Runs :
       /\ run[g].allShadow
       /\ run[g].outcome = "completed"
       /\ run[g].n = 2
       /\ run[g].approvedActions = 2

\* C4: the cycle is inside Execute only for the action ValidateAction has
\* just approved; a rejected action, or one whose validation errored, is
\* not executed, and the cycle never executes more actions than it approved.
C4_ExecuteOnlyApproved ==
    \A g \in Runs :
       /\ run[g].pc = "executing" =>
            run[g].verdict = "approved" /\ ex[g].action = run[g].action
       /\ ex[g].pc # "idle" => run[g].pc = "executing"
       /\ run[g].verdict \in {"rejected", "error"} => ex[g].pc = "idle"
       /\ run[g].execCount <= run[g].approvedActions

C4_Witness ==
    \E g \in Runs :
       /\ run[g].verdict = "rejected"
       /\ run[g].idx = 2
       /\ run[g].execCount = 1
       /\ run[g].startMode = "full"
       /\ mode = "full"

\* A breaker is active at this moment with PausedUntil in the future.
BreakerPausing ==
    LET e == checkCircuitBreakers(policy.CircuitBreakers, metrics, now)
    IN e # NoEvent /\ now < e.PausedUntil

\* C5: a cycle that starts while a breaker is active with PausedUntil in the
\* future is skipped: it gathers no context, makes no RequestDecision call,
\* validates and executes nothing and records no violation.
C5_BreakerSkipsCycle ==
    /\ [][\A g \in Runs :
            (run[g].pc = "cycle" /\ run'[g].pc # "cycle" /\ BreakerPausing) =>
               run'[g].pc = "select" /\ run'[g].outcome = "skipped"]_vars
    /\ [](\A g \in Runs :
            run[g].outcome = "skipped" =>
               /\ run[g].pc \in {"select", "cycle", "exited"}
               /\ ~run[g].gathered
               /\ run[g].oracleCalls = 0
               /\ run[g].validations = 0
               /\ run[g].execCount = 0
               /\ run[g].violationsSaved = 0
               /\ ex[g].pc = "idle")

C5_Witness ==
    \E g \in Runs :
       /\ run[g].outcome = "skipped"
       /\ run[g].pc = "select"
       /\ BreakerPausing

\* C6: a cycle is skipped only before the PausedUntil of the breaker event
\* that began the pause; a cycle starting at or after it proceeds.
C6_ResumesAfterPause ==
    \A g \in Runs :
       run[g].outcome = "skipped" => run[g].skippedAt < run[g].pausedUntil

\* C7: at most one decision cycle is in flight.
C7_NoOverlap == Cardinality({g \in Runs : InCycle(g)}) <= 1

\* C8: the orchestrator's mode is always one of shadow, pilot, full.
C8_ModeValid == GetMode \in Modes

\* C9: every action of a cycle is treated by the mode the cycle started in:
\* a cycle started in shadow executes nothing, a completed cycle started in
\* pilot or full has executed every action it approved.
C9_ModeFixedPerCycle ==
    \A g \in Runs :
       /\ run[g].startMode = "shadow" => run[g].execCount = 0
       /\ (run[g].outcome = "completed" /\ run[g].startMode \in {"pilot", "full"})
            => run[g].execCount = run[g].approvedActions

\* C10: an active kill switch becomes inactive only by a Deactivate call.
C10_ManualDeactivationOnly ==
    [][(ks.active /\ ~ks'.active) => Deactivate]_vars

C10_Witness ==
    /\ ks.active
    /\ now > ks.activatedAt
    /\ statusSeen.active
    /\ \E t \in Threads :
         ex[t].pc = "returned" /\ ex[t].Error = "ErrKillSwitchActive"

----------------------------------------------------------------------------
(* The price failover alone *)

\* Both symbols, every answer of every source, fallbacks registered at any
\* time, the clock passing the cache lifetime.
PriceCfg ==
    [NoCfg EXCEPT
       !.symbols = Symbols,
       !.prices = {SourceDown, 100, 102},
       !.timeSteps = {1},
       !.horizon = ShortHorizon]

InitPrice == InitWith(PriceCfg, {p \in Profiles : p.ProfileName = "moderate"}, {"full"})

NextPrice ==
    \/ \E s \in Symbols : GetPriceDirect(s)
    \/ AddFallbackSource
    \/ \E d \in cfg.timeSteps : AdvanceTime(d)

SpecPrice == InitPrice /\ [][NextPrice]_vars

----------------------------------------------------------------------------
(* Price failover properties *)

\* index of the last source registered when the recorded call was made
LastSource(r) == Cardinality(DOMAIN r.resps) - 1

\* C11: GetPrice asks the sources in the fixed order primary, fallback 1,
\* fallback 2, ... and stops at the first that answers: the primary is always
\* asked; when it answers no fallback is asked; fallback k is asked only if
\* the primary and the fallbacks before k all failed; and the price returned
\* is the answer of the first source that succeeded.
C11_FirstSuccessWins ==
    lastPrice.called =>
      LET r == lastPrice
          n == LastSource(r)
      IN /\ r.queried >= 1
         /\ r.resps[0] # SourceDown => r.queried = 1
         /\ \A k \in 1..n :
              k < r.queried => \A j \in 0..(k - 1) : r.resps[j] = SourceDown
         /\ \A k \in 0..n :
              (r.resps[k] # SourceDown /\ \A j \in 0..(k - 1) : r.resps[j] = SourceDown)
                => (r.queried = k + 1 /\ r.err = "none" /\ r.price = r.resps[k])

\* The primary and fallback 1 failed, fallback 2 answered 102 and won.
C11_Witness ==
    /\ lastPrice.called
    /\ LastSource(lastPrice) = 2
    /\ lastPrice.resps[0] = SourceDown
    /\ lastPrice.resps[1] = SourceDown
    /\ lastPrice.resps[2] = 102
    /\ lastPrice.queried = 3
    /\ lastPrice.price = 102

\* some source answered the recorded call
Live(r) == \E k \in DOMAIN r.resps : r.resps[k] # SourceDown

\* A step of the price failover that is a GetPrice call: the record of the
\* last call is filled while the clock, the registered sources and the
\* executor frames stay as they are.
GetPriceStep ==
    /\ lastPrice'.called
    /\ now' = now
    /\ numFallbacks' = numFallbacks
    /\ ex' = ex

\* C12: a GetPrice call answered by a live source sets the cache entry of
\* exactly the requested symbol to the returned price stamped with the current
\* time and leaves the entries of the other symbols as they were; a call in
\* which every source fails leaves the whole cache as it was.
C12_CacheFrame ==
    [][GetPriceStep =>
           LET r == lastPrice'
               s == r.symbol
           IN
             IF Live(r)
               THEN /\ r.err = "none"
                    /\ cache'[s].present
                    /\ cache'[s].price = r.price
                    /\ cache'[s].timestamp = now
                    /\ \A o \in Symbols \ {s} : cache'[o] = cache[o]
               ELSE cache' = cache]_vars

\* A fallback answered for BTCUSDT after the primary failed: its price is
\* cached at the current time while the older ETHUSDT entry is as it was.
C12_Witness ==
    /\ lastPrice.called
    /\ lastPrice.symbol = "BTCUSDT"
    /\ lastPrice.resps[0] = SourceDown
    /\ lastPrice.price = 102
    /\ cache["BTCUSDT"] = [present |-> TRUE, price |-> 102, timestamp |-> now]
    /\ cache["ETHUSDT"].present
    /\ cache["ETHUSDT"].timestamp < now

\* C13: when every source fails, GetPrice returns the cached price of the
\* requested symbol exactly when that entry exists and is younger than the
\* cache lifetime (5 minutes); with no entry, or one aged the lifetime or
\* more, it returns ErrPriceUnavailable and no price.
C13_StaleCacheRefused ==
    [][GetPriceStep =>
           LET r == lastPrice'
               s == r.symbol
           IN
             ~Live(r) =>
               IF cache[s].present /\ now - cache[s].timestamp < CacheTTL
                 THEN r.err = "none" /\ r.price = cache[s].price
                 ELSE r.err = "ErrPriceUnavailable" /\ r.price = 0]_vars

\* Every source failed while the entry of the symbol was exactly as old as
\* the cache lifetime, and of the other symbol fresh: the call was refused.
C13_Witness ==
    /\ lastPrice.called
    /\ ~Live(lastPrice)
    /\ lastPrice.err = "ErrPriceUnavailable"
    /\ cache[lastPrice.symbol].present
    /\ now - cache[lastPrice.symbol].timestamp = CacheTTL
    /\ \E o \in Symbols \ {lastPrice.symbol} :
         cache[o].present /\ cache[o].timestamp = now

----------------------------------------------------------------------------
(* Executor gate order *)

Returned(t, error) == ex[t].pc = "returned" /\ ex[t].Error = error

\* C14: Execute runs its gates in the order kill switch, policy validation,
\* price resolution, slippage guard, dispatch, and a failing gate ends the
\* call: a collaborator of a later gate is called only after the earlier
\* gates were passed; a call refused by the policy engine returns
\* ErrPolicyViolation having queried no price source, left the price cache
\* alone and called neither GetBalance nor PlaceMarketOrder; a call whose
\* price resolution fails calls neither GetBalance nor PlaceMarketOrder.
C14_GateOrder ==
    /\ [](\A t \in Threads :
            LET f == ex[t] IN
              /\ "GetPrice" \in f.called => "ValidateAction" \in f.called
              /\ "GetBalance" \in f.called => ("GetPrice" \in f.called /\ f.price > 0)
              /\ "PlaceMarketOrder" \in f.called => "GetBalance" \in f.called
              /\ Returned(t, "ErrKillSwitchActive") => f.called = {}
              /\ Returned(t, "ErrPolicyViolation")
                   => (f.called = {"ValidateAction"} /\ f.queried = 0)
              /\ Returned(t, "ErrPriceUnavailable")
                   => f.called = {"ValidateAction", "GetPrice"}
              /\ Returned(t, "ErrSlippageTooHigh")
                   => f.called = {"ValidateAction", "GetPrice"})
    /\ [][/\ \A t \in Threads :
              (ex[t].pc = "validate" /\ ex'[t].pc = "price") =>
                 \E resp \in cfg.storage :
                    LET v == ValidateAction(policy, metrics, ex[t].action, resp, now)
                    IN ~v.err /\ v.result.Approved /\ metrics' = v.metrics
          /\ cache' # cache =>
                 \E t \in Threads :
                    ex[t].pc = "price" /\ "GetPrice" \in ex'[t].called]_vars

\* A call was refused by the policy engine after an earlier call had filled
\* the cache: the entry is still the older one.
C14_Witness ==
    \E t \in Threads :
      /\ Returned(t, "ErrPolicyViolation")
      /\ ex[t].called = {"ValidateAction"}
      /\ cache[ex[t].action.Symbol].present
      /\ cache[ex[t].action.Symbol].timestamp < now

----------------------------------------------------------------------------
(* Slippage guard *)

\* the action is one the guard looks at
Guarded(a) == a.Type \in {"buy", "set_dca"} /\ Has(a.Parameters, "expected_price")

\* |price - expected| / expected * 100 > threshold as float64 evaluates it:
\* cross-multiplied for expected > 0; +Inf for expected = 0 and price # 0 (NaN,
\* which compares false, for 0/0); a negative quotient for expected < 0.
DeviationExceeds(price, expected, threshold) ==
    IF expected > 0 THEN Abs(price - expected) * 100 > threshold * expected
    ELSE IF expected = 0 THEN price # 0 /\ threshold >= 0
    ELSE FALSE

GuardErrors == {"ErrSlippageTooHigh", "invalid expected price"}

\* the step in which caller t leaves the slippage gate
LeavesGuard(t) == ex[t].pc = "slippage" /\ ex'[t].pc # "slippage"

SlippageRefusal(t) ==
    /\ ex'[t].pc = "returned"
    /\ ex'[t].Error = "ErrSlippageTooHigh"
    /\ ~ex'[t].Success
    /\ "PlaceMarketOrder" \notin ex'[t].called

\* C15 as stated: a buy / set_dca action carrying expected_price fails with
\* the slippage error and places no order whenever the deviation exceeds the
\* guard's current threshold, and passes the guard otherwise; any other
\* action is never blocked by the guard.
C15_SlippageAsStated ==
    [][\A t \in Threads :
         LeavesGuard(t) =>
           LET a == ex[t].action IN
             IF Guarded(a) /\ DeviationExceeds(ex[t].price, a.Parameters["expected_price"],
                                               thresholdPercent)
               THEN SlippageRefusal(t)
               ELSE ex'[t].Error \notin GuardErrors]_vars

\* C15, amended: for a buy / set_dca action carrying expected_price > 0 the
\* call fails with the slippage error and places no order exactly when the
\* deviation exceeds the guard's current threshold (a deviation equal to the
\* threshold passes); with expected_price <= 0 the call fails with the
\* invalid-expected-price error and places no order; an action without
\* expected_price, or of another kind, is never blocked by the guard.
C15_SlippageGuard ==
    [][\A t \in Threads :
         LeavesGuard(t) =>
           LET a == ex[t].action
               e == a.Parameters["expected_price"]
           IN IF ~Guarded(a) THEN ex'[t].Error \notin GuardErrors
              ELSE IF e <= 0
                THEN /\ ex'[t].pc = "returned"
                     /\ ex'[t].Error = "invalid expected price"
                     /\ "PlaceMarketOrder" \notin ex'[t].called
              ELSE IF Abs(ex[t].price - e) * 100 > thresholdPercent * e
                THEN SlippageRefusal(t)
              ELSE ex'[t].Error \notin GuardErrors]_vars

\* With the threshold raised to 2 a price 2% off the expected one passed the
\* guard and the order was placed.
C15_Witness ==
    \E t \in Threads :
      /\ thresholdPercent = 2
      /\ Guarded(ex[t].action)
      /\ ex[t].action.Parameters["expected_price"] = 100
      /\ ex[t].price = 102
      /\ ex[t].pc = "returned"
      /\ ex[t].Success
      /\ "PlaceMarketOrder" \in ex[t].called

----------------------------------------------------------------------------
(* The risk score alone *)

\* Metrics the score is evaluated on: every combination of a zero, a middle
\* and a large value of each of its three inputs.
ScoreInputs ==
    { [ZeroMetrics EXCEPT !.TotalExposureUSDT = e, !.CurrentDrawdown = d,
                          !.DailyLossUSDT = l] :
        e \in {0, 3, 12}, d \in {0, 50, 400}, l \in {0, 2, 4} }

ScoreCfg == [NoCfg EXCEPT !.metricInputs = ScoreInputs]

InitScore == InitWith(ScoreCfg, Profiles \cup {CustomProfile}, {"full"})

NextScore == \E m \in cfg.metricInputs : RiskScoreOf(m)

SpecScore == InitScore /\ [][NextScore]_vars

\* m1 is at most m2 in each of the three inputs of the score
AtMost(m1, m2) ==
    /\ m1.TotalExposureUSDT <= m2.TotalExposureUSDT
    /\ m1.CurrentDrawdown <= m2.CurrentDrawdown
    /\ m1.DailyLossUSDT <= m2.DailyLossUSDT

\* C16: for non-negative exposure, drawdown and daily loss the risk score
\* lies in [0, 1] (0..1000 thousandths) and does not decrease when any of the
\* three inputs grows.
C16_RiskScoreRange ==
    lastScore.called =>
      /\ lastScore.score >= 0
      /\ lastScore.score <= 1000
      /\ (lastScore.prevCalled /\ AtMost(lastScore.prevM, lastScore.m))
           => lastScore.prevScore <= lastScore.score

\* Two evaluations in a row: a score strictly inside the range, then, with
\* larger inputs, a score held at the cap.
C16_Witness ==
    /\ lastScore.called
    /\ lastScore.prevCalled
    /\ AtMost(lastScore.prevM, lastScore.m)
    /\ lastScore.prevScore > 0
    /\ lastScore.prevScore < 1000
    /\ lastScore.score = 1000
    /\ lastScore.m.TotalExposureUSDT = 12
    /\ lastScore.m.CurrentDrawdown = 400

----------------------------------------------------------------------------
(* The circuit breakers alone *)

\* Metrics the breakers are run on: each metric at the smallest threshold
\* used for it and one unit below, the drawdown also around the larger one.
BreakerInputs ==
    { [ZeroMetrics EXCEPT !.CurrentDrawdown = d, !.DailyLossUSDT = l,
                          !.VolatilityPct = v] :
        d \in {24, 25, 49, 50}, l \in {0, 1}, v \in {29, 30} }

BreakerCfg == [NoCfg EXCEPT !.timeSteps = {1}, !.horizon = ShortHorizon]

InitBreaker ==
    InitFrom(BreakerCfg, Profiles \cup {CustomProfile}, {"full"}, BreakerInputs)

NextBreaker ==
    \/ CheckBreakersDirect
    \/ \E d \in cfg.timeSteps : AdvanceTime(d)

SpecBreaker == InitBreaker /\ [][NextBreaker]_vars

\* the metric a rule of a known type watches has reached the rule's threshold
Trips(cb, m) ==
    \/ cb.Type = "drawdown" /\ m.CurrentDrawdown >= cb.Threshold
    \/ cb.Type = "daily_loss" /\ m.DailyLossUSDT >= cb.Threshold
    \/ cb.Type = "volatility" /\ m.VolatilityPct >= cb.Threshold

PauseOf(reason) ==
    CASE reason = "drawdown" -> DrawdownPause
      [] reason = "daily_loss" -> DailyLossPause
      [] reason = "volatility" -> VolatilityPause
      [] OTHER -> 0

\* C17: the breaker check returns an event exactly when some configured rule
\* has its metric at or above its threshold (one unit below does not trip);
\* the event names a tripped rule and pauses until the time of the call plus
\* 1 hour for drawdown, 24 hours for daily loss, 30 minutes for volatility;
\* and the call changes neither the metrics nor the policy.
C17_BreakerTrips ==
    /\ [](lastEvent.called =>
            LET cbs == policy.CircuitBreakers
                ev == lastEvent.event
                tripped == {i \in 1..Len(cbs) : Trips(cbs[i], metrics)}
            IN /\ (ev # NoEvent) <=> (tripped # {})
               /\ ev # NoEvent =>
                    /\ \E i \in tripped : ev.Reason = cbs[i].Type
                    /\ ev.PausedUntil = lastEvent.at + PauseOf(ev.Reason))
    /\ [][CheckBreakersDirect => (metrics' = metrics /\ policy' = policy)]_vars

\* The drawdown stood exactly at the rule's threshold of 50 late in the run
\* and the check paused trading for an hour from then.
C17_Witness ==
    /\ lastEvent.called
    /\ policy.ProfileName = "moderate"
    /\ metrics.CurrentDrawdown = 50
    /\ lastEvent.at > 0
    /\ lastEvent.event = [Reason |-> "drawdown",
                           PausedUntil |-> lastEvent.at + DrawdownPause]

----------------------------------------------------------------------------
(* Decision cycle: failures *)

\* C18: when RequestDecision fails (request error, unparsable answer, or an
\* answer refused by validation such as one with more than three actions)
\* the cycle ends there: no action of it was validated or executed, no
\* decision was persisted; the run loop goes back to waiting, it ends only
\* on Stop or on cancellation, and the cycle the next tick starts begins
\* afresh.
C18_OracleFailureAbortsCycle ==
    /\ [](\A g \in Runs :
            run[g].outcome = "error" =>
              /\ run[g].oracleCalls = 1
              /\ run[g].validations = 0
              /\ run[g].approvedActions = 0
              /\ run[g].execCount = 0
              /\ run[g].violationsSaved = 0
              /\ ~run[g].decisionSaved
              /\ ex[g].pc = "idle")
    /\ [][\A g \in Runs :
            /\ (run[g].pc = "request" /\ run'[g].outcome = "error")
                 => (run'[g].pc = "select" /\ ex' = ex /\ metrics' = metrics)
            /\ (run[g].pc # "exited" /\ run'[g].pc = "exited")
                 => (stopClosed \/ ctxDone)
            /\ (run[g].outcome = "error" /\ run[g].pc = "cycle"
                   /\ run'[g].pc # "cycle")
                 => (run'[g].pc \in {"gather", "select"}
                     /\ run'[g].outcome # "error"
                     /\ run'[g].oracleCalls = 0
                     /\ run'[g].validations = 0)]_vars

\* A run loop whose last cycle ended on a failed decision request has taken
\* the next tick and stands at the start of a new cycle.
C18_Witness ==
    \E g \in Runs :
      /\ run[g].outcome = "error"
      /\ run[g].pc = "cycle"
      /\ run[g].oracleCalls = 1
      /\ run[g].validations = 0
      /\ ~stopClosed
      /\ ~ctxDone

\* the goroutine is inside the action loop of a cycle
InLoop(g) == run[g].pc \in {"loop", "checkMode", "executing"}

\* C19: the actions of a decision are validated one after the other in list
\* order whatever happened to the earlier ones: a rejection, a validation
\* error or a failed execution moves the loop to the next action, an approved
\* action is executed unless the mode is shadow, and the cycle ends only
\* after the last action, every one of them validated.
C19_LoopGoesOn ==
    /\ [](\A g \in Runs :
            /\ run[g].pc = "loop" => run[g].validations = run[g].idx
            /\ run[g].outcome = "completed" =>
                  (run[g].idx = run[g].n /\ run[g].validations = run[g].n))
    /\ [][\A g \in Runs :
            /\ (run[g].pc = "loop" /\ run[g].idx < run[g].n
                   /\ (run'[g].pc # "loop" \/ run'[g].idx # run[g].idx))
                 => /\ run'[g].validations = run[g].validations + 1
                    /\ \/ run'[g].pc = "checkMode" /\ run'[g].verdict = "approved"
                              /\ run'[g].idx = run[g].idx
                       \/ run'[g].pc = "loop" /\ run'[g].idx = run[g].idx + 1
                              /\ run'[g].verdict \in {"rejected", "error"}
            /\ (run[g].pc = "checkMode" /\ run'[g].pc # "checkMode")
                 => IF mode # "shadow"
                      THEN /\ run'[g].pc = "executing"
                           /\ run'[g].execCount = run[g].execCount + 1
                           /\ ex'[g].pc # "idle"
                      ELSE run'[g].pc = "loop" /\ run'[g].idx = run[g].idx + 1
            /\ (run[g].pc = "executing" /\ run'[g].pc # "executing")
                 => (run'[g].pc = "loop" /\ run'[g].idx = run[g].idx + 1)
            /\ (InLoop(g) /\ run'[g].pc = "select")
                 => (run[g].pc = "loop" /\ run[g].idx = run[g].n)]_vars

\* A cycle of two actions ran to its end: the first was not approved, the
\* second was validated all the same, approved and executed.
C19_Witness ==
    \E g \in Runs :
      /\ run[g].outcome = "completed"
      /\ run[g].n = 2
      /\ run[g].validations = 2
      /\ run[g].approvedActions = 1
      /\ run[g].verdict = "approved"
      /\ run[g].execCount = 1

----------------------------------------------------------------------------
(* Validation results *)

WarningKinds == {"position_size", "trade_frequency"}

\* C20: in every validation result Approved is false exactly when the
\* violations include a critical one; the grid-capital and trade-frequency
\* violations are warnings, and a result carrying nothing but warnings is
\* approved.
C20_ApprovedIffNoCritical ==
    LET v == lastValidation
        vs == v.result.Violations
    IN (v.called /\ ~v.err) =>
         /\ (~v.result.Approved) <=> (\E i \in 1..Len(vs) : vs[i].Severity = "critical")
         /\ \A i \in 1..Len(vs) :
              vs[i].Type \in WarningKinds => vs[i].Severity = "warning"
         /\ (\A i \in 1..Len(vs) : vs[i].Type \in WarningKinds) => v.result.Approved

\* A grid whose capital exceeds the position limit, validated when the day's
\* trade count stood at the limit: two warnings, approved.
C20_Witness ==
    /\ lastValidation.called
    /\ ~lastValidation.err
    /\ lastValidation.action.Type = "set_grid"
    /\ Len(lastValidation.result.Violations) = 2
    /\ lastValidation.result.Violations[1].Type = "position_size"
    /\ lastValidation.result.Violations[2].Type = "trade_frequency"
    /\ lastValidation.result.Approved

----------------------------------------------------------------------------
(* Concurrent callers *)

\* Two callers of Execute at once, each call of the engine and of the price
\* failover taken in two steps: entering it, and its body.
RaceCfg ==
    [NoCfg EXCEPT
       !.callers = Callers,
       !.actions = {Dca("BTCUSDT", 1), Dca("ETHUSDT", 1)},
       !.storage = {Resp(FALSE, << Bal(2, -1) >>, FALSE, 0),
                    Resp(FALSE, << Bal(2, 0) >>, FALSE, 0)},
       !.prices = {SourceDown, 100}]

InitRace == InitWith(RaceCfg, {p \in Profiles : p.ProfileName = "aggressive"}, {"full"})

NextRace ==
    \/ \E t \in cfg.callers, a \in cfg.actions : Execute(t, a)
    \/ \E t \in cfg.callers : ExecuteValidateEnter(t)
    \/ \E t \in cfg.callers : ExecuteValidateBody(t)
    \/ \E t \in cfg.callers : ExecutePriceEnter(t)
    \/ \E t \in cfg.callers : ExecutePriceBody(t)
    \/ \E t \in cfg.callers : ExecuteDispatch(t)
    \/ \E t \in cfg.callers : ExecuteOrder(t)

SpecRace == InitRace /\ [][NextRace]_vars

\* C21: no write to the price cache or to the engine's risk metrics happens
\* while another caller is inside the code that reads or writes the same
\* data: a caller whose GetPrice body changes the cache is alone inside
\* GetPrice, and a caller whose ValidateAction body changes the metrics is
\* alone inside ValidateAction.
C21_NoConcurrentAccess ==
    [][\A t \in Threads :
         /\ (ex[t].pc = "inGetPrice" /\ cache' # cache)
              => \A u \in Threads \ {t} : ex[u].pc # "inGetPrice"
         /\ (ex[t].pc = "inValidateAction" /\ metrics' # metrics)
              => \A u \in Threads \ {t} : ex[u].pc # "inValidateAction"]_vars

----------------------------------------------------------------------------
(* Kill switch against calls in flight *)

\* C22: no PlaceMarketOrder call is issued in a state where the kill switch
\* is active, whatever the interleaving of Activate with a call of Execute
\* already in flight.
C22_NoOrderWhileActive ==
    [][\A t \in Threads :
         ("PlaceMarketOrder" \notin ex[t].called
            /\ "PlaceMarketOrder" \in ex'[t].called) => ~ks.active]_vars

----------------------------------------------------------------------------
(* The rate limiter alone *)

AuthCfg == [NoCfg EXCEPT !.users = Users, !.maxRequests = {1, 2}]

InitAuth == InitWith(AuthCfg, {p \in Profiles : p.ProfileName = "moderate"}, {"full"})

NextAuth ==
    \/ \E u \in Users, k \in cfg.maxRequests : CheckRateLimitCall(u, k)
    \/ AuthTick

SpecAuth == InitAuth /\ [][NextAuth]_vars

\* the calls of log[i]'s user before call i
Earlier(log, i) == {j \in 1..(i - 1) : log[j].user = log[i].user}

\* When the window that call i falls into was opened: by call i itself if it
\* is the user's first call or comes a second or more after the opening of
\* the window of the user's previous call, else with that previous call's.
RECURSIVE WindowOpenedAt(_, _)
WindowOpenedAt(log, i) ==
    IF Earlier(log, i) = {}
      THEN log[i].at
      ELSE LET j == CHOOSE k \in Earlier(log, i) : \A m \in Earlier(log, i) : m <= k
               w == WindowOpenedAt(log, j)
           IN IF log[i].at - w >= Second THEN log[i].at ELSE w

\* the position of call i among its user's calls of the same window
RankInWindow(log, i) ==
    Cardinality({j \in Earlier(log, i) \cup {i} :
                   WindowOpenedAt(log, j) = WindowOpenedAt(log, i)})

\* C23: CheckRateLimit is a fixed window per user.  A user's window opens with
\* the first request made a second or more after the previous window of that
\* user opened; a call is refused exactly when more calls of that user than
\* the limit it was given fall into its window up to and including itself.
\* Calls of other users do not count.
C23_FixedWindowPerUser ==
    \A i \in 1..Len(authLog) :
       authLog[i].err <=> (RankInWindow(authLog, i) > authLog[i].max)

\* C23 witness: with limit 2 a user is served twice and refused the third
\* time within the second while another user is still served, and the first
\* user is served again one second after the window opened.
C23_Witness ==
    /\ Len(authLog) = MaxCalls
    /\ \E i1, i2, i3, i4 \in 1..Len(authLog) :
         /\ i1 < i2 /\ i2 < i3 /\ i3 < i4
         /\ Earlier(authLog, i4) = {i1, i2, i3}
         /\ \A i \in {i1, i2, i3, i4} : authLog[i].user = 123 /\ authLog[i].max = 2
         /\ ~authLog[i1].err /\ ~authLog[i2].err /\ authLog[i3].err
         /\ authLog[i3].at < authLog[i1].at + Second
         /\ authLog[i4].at = authLog[i1].at + Second
         /\ ~authLog[i4].err
         /\ \E o \in 1..Len(authLog) :
              /\ i3 < o /\ authLog[o].user = 456 /\ authLog[o].max = 2
              /\ authLog[o].at = authLog[i3].at /\ ~authLog[o].err

----------------------------------------------------------------------------
(* Circuit breakers inside ValidateAction *)

\* the breaker rules trip on the metrics the last ValidateAction call left
BreakerTrippedInCall ==
    /\ lastValidation.called
    /\ ~lastValidation.err
    /\ checkCircuitBreakers(policy.CircuitBreakers, metrics, lastValidation.at) # NoEvent

\* C24: when a circuit breaker trips on the refreshed metrics, ValidateAction
\* returns Approved = false with exactly one violation, of type
\* circuit_breaker and severity critical; no order-size, exposure, grid,
\* trade-frequency or daily-loss violation is added, whatever the action.
C24_BreakerShortCircuits ==
    BreakerTrippedInCall =>
       LET r == lastValidation.result IN
         /\ ~r.Approved
         /\ Len(r.Violations) = 1
         /\ r.Violations[1].Type = "circuit_breaker"
         /\ r.Violations[1].Severity = "critical"

\* C24 witness: a buy that by itself breaks a per-order limit is validated
\* while a breaker trips, and the result carries the breaker violation only.
C24_Witness ==
    /\ BreakerTrippedInCall
    /\ lastValidation.action.Type = "set_dca"
    /\ validateBuyAction(policy, metrics, lastValidation.action) # << >>
    /\ Len(lastValidation.result.Violations) = 1
    /\ lastValidation.result.Violations[1].Type = "circuit_breaker"

----------------------------------------------------------------------------
(* Risk metrics after a validation pass *)

\* the four derived fields of the metrics
Derived(m) ==
    <<m.TotalExposureUSDT, m.CurrentDrawdown, m.DailyTradeCount, m.DailyLossUSDT>>

\* C25: after every ValidateAction call that returned without error the
\* engine's exposure, drawdown, trade count and daily loss are the ones that
\* some storage answer yields on its own, starting from no earlier metrics:
\* nothing of an earlier pass is carried over.
C25_MetricsDerivedOnly ==
    (lastValidation.called /\ ~lastValidation.err) =>
       \E resp \in cfg.storage :
          /\ ~updateMetrics(ZeroMetrics, resp).err
          /\ Derived(metrics) = Derived(updateMetrics(ZeroMetrics, resp).metrics)

----------------------------------------------------------------------------
(* Risk limits handed to the oracle *)

\* the policy's limits, doubled, scaled by k halves
ConfiguredX2(pol, k) ==
    [MaxOrderUSDT |-> k * pol.MaxOrderUSDT, MaxPositionUSDT |-> k * pol.MaxPositionUSDT,
     MaxTotalExposure |-> k * pol.MaxTotalExposure,
     MaxDailyLoss |-> k * pol.MaxDailyLossUSDT]

\* C26: the risk limits of the decision request, full or minimal, are half
\* the policy's limits when the context is built in pilot mode and the
\* policy's limits when it is built in shadow or full mode.
C26_LimitsScaledByMode ==
    [][\A g \in Runs :
         (run[g].pc = "gather" /\ run'[g].pc = "request") =>
            /\ mode = "pilot"
                 => run'[g].context.RiskLimitsX2 = ConfiguredX2(policy, 1)
            /\ mode \in {"shadow", "full"}
                 => run'[g].context.RiskLimitsX2 = ConfiguredX2(policy, 2)]_vars

----------------------------------------------------------------------------
(* Persistence is best effort *)

RequestStep(g) ==
    run[g].pc = "request" /\ run'[g].oracleCalls = run[g].oracleCalls + 1

ValidateStep(g) ==
    run[g].pc = "loop" /\ run'[g].validations = run[g].validations + 1

\* C27: a failing SaveAIDecision leaves the cycle in its action loop with the
\* decision it got, and a validation during which SavePolicyViolation fails,
\* in the engine or in the orchestrator, ends as the same validation does
\* with a working storage: same metrics, same verdict, same next position in
\* the loop, nothing executed, and the cycle goes on without an error.
C27_SaveFailureChangesNothing ==
    [][\A g \in Runs :
         /\ (RequestStep(g) /\ run'[g].saveFailed) =>
               /\ run'[g].pc = "loop"
               /\ run'[g].outcome = run[g].outcome
               /\ run'[g].n \in 0..MaxDecisionActions
         /\ (ValidateStep(g) /\ run'[g].saveFailed) =>
               \E resp \in cfg.storage :
                  /\ ~resp.saveErr
                  /\ LET v == ValidateAction(policy, metrics, run'[g].action, resp, now)
                     IN /\ ~v.err
                        /\ metrics' = v.metrics
                        /\ run'[g].verdict = IF v.result.Approved THEN "approved"
                                                                  ELSE "rejected"
                        /\ run'[g].pc = IF v.result.Approved THEN "checkMode" ELSE "loop"
                        /\ run'[g].idx = IF v.result.Approved THEN run[g].idx
                                                              ELSE run[g].idx + 1
                        /\ run'[g].approvedActions =
                              IF v.result.Approved THEN run[g].approvedActions + 1
                                                   ELSE run[g].approvedActions
                        /\ run'[g].outcome = run[g].outcome
                        /\ ex' = ex]_vars

\* C27 witness: the first of a decision's two actions was rejected while
\* the storage refused to save its violation, and the cycle stands in its
\* loop, without an error, about to validate the second action.
C27_Witness ==
    \E g \in Runs :
       /\ run[g].saveFailed
       /\ run[g].verdict = "rejected"
       /\ run[g].pc = "loop"
       /\ run[g].idx = 1
       /\ run[g].n = 2
       /\ run[g].outcome # "error"

----------------------------------------------------------------------------
(* Start and Stop in any order *)

\* C28: whatever the sequence of Start and Stop calls, stopChan is never
\* closed twice (no panic), and an orchestrator that is running, restarted or
\* not, has an open stopChan, so that its run loop keeps taking ticks.
C28_StartStopRestartable ==
    /\ ~panicked
    /\ isRunning => ~stopClosed

----------------------------------------------------------------------------
(* Ticks against Stop and cancellation *)

\* C29: once Stop has closed stopChan, or the context is cancelled, the run
\* loop starts no further decision cycle from its select, even with a tick
\* buffered in ticker.C.
C29_NoCycleAfterStop ==
    [][\A g \in Runs :
         (run[g].pc = "select" /\ run'[g].pc = "cycle")
            => (~stopClosed /\ ~ctxDone)]_vars

----------------------------------------------------------------------------
(* A failing metrics refresh *)

\* C30: when the metrics refresh fails the system fails closed.
\* ValidateAction returns an error and no result, whatever the action;
\* Execute returns that error having called nothing but ValidateAction: no
\* price source queried, no GetBalance, no PlaceMarketOrder; and the
\* orchestrator's loop skips the action, leaves the count of approved actions
\* alone, executes nothing for it and goes on with the next action.
C30_FailClosed ==
    /\ [](\A a \in cfg.oracleActions, resp \in cfg.storage :
            updateMetrics(metrics, resp).err =>
               LET v == ValidateAction(policy, metrics, a, resp, now)
               IN v.err /\ v.result = NoResult /\ v.saved = << >>)
    /\ [](\A t \in Threads :
            ex[t].Error = "policy validation error" =>
               /\ ex[t].pc = "returned"
               /\ ex[t].called = {"ValidateAction"}
               /\ ~ex[t].Success
               /\ ex[t].nilResult
               /\ ex[t].queried = 0)
    /\ [][\A g \in Runs :
            (ValidateStep(g) /\ run'[g].verdict = "error") =>
               /\ run'[g].approvedActions = run[g].approvedActions
               /\ run'[g].execCount = run[g].execCount
               /\ run'[g].pc = "loop"
               /\ run'[g].idx = run[g].idx + 1
               /\ run'[g].outcome = run[g].outcome
               /\ ex' = ex]_vars

\* C30 witness: the validation of the first action of a decision failed in
\* the orchestrator's loop (nothing approved, no violation saved), the loop
\* went on to the second action, which was approved, and its Execute
\* returned the validation error of a failed refresh.
C30_Witness ==
    \E g \in Runs :
       /\ run[g].pc = "executing"
       /\ run[g].n = 2
       /\ run[g].idx = 1
       /\ run[g].validations = 2
       /\ run[g].violationsSaved = 0
       /\ run[g].approvedActions = 1
       /\ Returned(g, "policy validation error")

====
